---- MODULE Spec2Model ----
(***************************************************************************)
(* php2ir: the LLVM IR generator (src/src/ir.rs) as a state machine.       *)
(*                                                                         *)
(* The generator's fields are the record `gen`; every method of            *)
(* IrGenerator is an operator that takes the generator and returns it      *)
(* changed, as the Rust method changes `&mut self`.  The emitted text      *)
(* `ir_code` is the sequence of the pieces handed to push_str, each piece  *)
(* the sequence of the fragments of its format string and of its formatted *)
(* arguments: the text is the concatenation of all fragments.              *)
(***************************************************************************)
EXTENDS Integers, Sequences, FiniteSets, TLC

VARIABLES
    gen,              \* the IrGenerator instance (ir.rs:24-45); in SpecCompile the Compiler's ir_generator field
    overflow_checks,  \* the build: TRUE when u32 overflow panics (debug profile), FALSE when it wraps (release)
    pc,               \* the caller's position: "idle", in generate's node loop ("nodes"), or "panicked"
    ast,              \* the nodes the running (or last) generate call has been handed so far
    result,           \* what the last finished generate call returned; NoResult while a call runs
    reused,           \* TRUE when the running (or last) call began on an instance that had returned from generate before
    fresh,            \* a second instance, constructed by IrGenerator::new when the call began and handed the same nodes
    instances,        \* SpecTwo: two IrGenerator instances, each with its own caller
    options,          \* the Compiler's CompilerOptions (compiler.rs:28-64)
    compile_pc,       \* the stage Compiler::compile is at (or stopped at, when compile_result is an error)
    ir,               \* compile's local `ir`: None until generate_ir returned
    files,            \* the files compile has written: records [path, content]
    effects,          \* the file writes and external processes of the compile call, in order
    compile_result,   \* what compile returned; NoResult while it runs
    types,            \* SpecTypes: a Type value and what llvm_type, non_null_type and can_be_null returned for it
    lexer,            \* SpecLex: the Lexer (parser.rs:249-254)
    tokens,           \* SpecLex: the calls of Lexer::next_token so far: position before, token returned, position after
    resources         \* SpecResource: the static NEXT_ID of Resource::new and the threads that call it

generator_vars == <<gen, pc, ast, result, reused, fresh>>
compiler_vars == <<options, compile_pc, ir, files, effects, compile_result>>
library_vars == <<types, lexer, tokens, resources>>
vars == <<gen, overflow_checks, pc, ast, result, reused, fresh, instances,
          options, compile_pc, ir, files, effects, compile_result,
          types, lexer, tokens, resources>>

\* Number of top-level AST nodes handed to one generate call.
MaxNodes == 2
\* Number of members of the Union types handed to the Type methods.
MaxUnionLen == 3
\* Number of characters of the source texts handed to the Lexer.
MaxSourceLen == 3
\* Number of Resource::new calls of one thread.
MaxResources == 2

\* u32::MAX as printed by format!("{}", 0u32.wrapping_sub(1)); the counters are u32.
U32_MAX_TEXT == "4294967295"

(***************************************************************************)
(* The AST (src/src/ast.rs).                                               *)
(***************************************************************************)
Literal_Int(n) == [lit |-> "Int", n |-> n]
Literal_Float(x) == [lit |-> "Float", x |-> x]   \* x: the Display text of the f64
Literal_String(s) == [lit |-> "String", s |-> s]
Literal_Bool(b) == [lit |-> "Bool", b |-> b]
Literal_Null == [lit |-> "Null"]
Literal_Array == [lit |-> "Array"]

Expression_Literal(l) == [expr |-> "Literal", literal |-> l]
Expression_Variable(name) == [expr |-> "Variable", name |-> name]
Expression_BinaryOp(l, op, r) == [expr |-> "BinaryOp", left |-> l, op |-> op, right |-> r]
Expression_UnaryOp(op, e) == [expr |-> "UnaryOp", op |-> op, operand |-> e]
Expression_FunctionCall(name, args) == [expr |-> "FunctionCall", callee |-> name, arguments |-> args]
Expression_Assignment(t, v) == [expr |-> "Assignment", target |-> t, value |-> v]

Statement_Expression(e) == [stmt |-> "Expression", e |-> e]
Statement_Block(ss) == [stmt |-> "Block", statements |-> ss]
Statement_If(c, t, e) == [stmt |-> "If", condition |-> c, then_branch |-> t, else_branch |-> e]
Statement_While(c, b) == [stmt |-> "While", condition |-> c, body |-> b]
Statement_Return(e) == [stmt |-> "Return", value |-> e]
Statement_Echo(es) == [stmt |-> "Echo", expressions |-> es]
Statement_Break == [stmt |-> "Break"]

\* Option<T>: None is the empty sequence, Some(x) the one-element sequence.
None == <<>>
Some(x) == <<x>>

Parameter(name, typ) == [name |-> name, typ |-> typ]
FunctionDecl(name, params, ret, body) ==
    [name |-> name, parameters |-> params, return_type |-> ret, body |-> body]

AstNode_Program(nodes) == [node |-> "Program", nodes |-> nodes]
AstNode_Expression(e) == [node |-> "Expression", e |-> e]
AstNode_Statement(s) == [node |-> "Statement", s |-> s]
AstNode_Function(f) == [node |-> "Function", func_decl |-> f]
AstNode_Class(name) == [node |-> "Class", name |-> name]
AstNode_Interface(name) == [node |-> "Interface", iname |-> name]

(***************************************************************************)
(* IrGenerator::new: the state after construction.                        *)
(* `panicked` records that a method panicked (arithmetic overflow in a     *)
(* build with overflow checks): nothing runs after it.                     *)
(***************************************************************************)
IrGenerator_new ==
    [current_function |-> None,
     var_counter |-> 0,
     block_counter |-> 0,
     ir_code |-> <<>>,
     functions |-> {},
     globals |-> {},
     panicked |-> FALSE]

\* self.ir_code.push_str(piece)
push_str(g, piece) ==
    IF g.panicked THEN g ELSE [g EXCEPT !.ir_code = Append(@, piece)]

\* fn new_var: self.var_counter += 1; format!("%{}", self.var_counter - 1)
new_var(g) ==
    IF g.panicked THEN [g |-> g, val |-> ""]
    ELSE [g |-> [g EXCEPT !.var_counter = @ + 1],
          val |-> "%" \o ToString((g.var_counter + 1) - 1)]

\* fn last_var: format!("%{}", self.var_counter - 1), on a u32: at 0 the
\* subtraction overflows, which panics or wraps to u32::MAX with the build.
last_var(g) ==
    IF g.panicked THEN [g |-> g, val |-> ""]
    ELSE IF g.var_counter = 0
         THEN IF overflow_checks
              THEN [g |-> [g EXCEPT !.panicked = TRUE], val |-> ""]
              ELSE [g |-> g, val |-> "%" \o U32_MAX_TEXT]
         ELSE [g |-> g, val |-> "%" \o ToString(g.var_counter - 1)]

\* fn new_block: self.block_counter += 1; format!("bb{}", self.block_counter - 1)
new_block(g) ==
    IF g.panicked THEN [g |-> g, val |-> ""]
    ELSE [g |-> [g EXCEPT !.block_counter = @ + 1],
          val |-> "bb" \o ToString((g.block_counter + 1) - 1)]

\* fn new_global_string: names the global after var_counter, increments
\* var_counter, emits the declaration, returns the name.
new_global_string(g, s) ==
    IF g.panicked THEN [g |-> g, val |-> ""]
    ELSE LET global_name == "@.str." \o ToString(g.var_counter)
             g1 == [g EXCEPT !.var_counter = @ + 1]
         IN [g |-> push_str(g1, <<global_name, " = private unnamed_addr constant [",
                                  ToString(Len(s) + 1), " x i8] c\"", s, "\\00\"\n">>),
             val |-> global_name]

\* Type (src/src/types.rs)
Type_Int == [type |-> "Int"]
Type_Float == [type |-> "Float"]
Type_Bool == [type |-> "Bool"]
Type_String == [type |-> "String"]
Type_Array(elem) == [type |-> "Array", elem |-> elem]
Type_AssociativeArray(elem) == [type |-> "AssociativeArray", elem |-> elem]
Type_Object(class) == [type |-> "Object", class |-> class]
Type_Null == [type |-> "Null"]
Type_Function(params, ret) == [type |-> "Function", params |-> params, ret |-> ret]
Type_Union(members) == [type |-> "Union", types |-> members]
Type_Generic(name, args) == [type |-> "Generic", name |-> name, args |-> args]
Type_Unknown == [type |-> "Unknown"]

\* llvm_type whose default arm yields void instead of the opaque pointer
llvm_type_default_void(typ) ==
    CASE typ.type = "Int" -> "i64"
      [] typ.type = "Float" -> "double"
      [] typ.type = "Bool" -> "i1"
      [] typ.type = "String" -> "i8*"
      [] typ.type = "Array" -> "i8*"
      [] typ.type = "Object" -> "i8*"
      [] typ.type = "Null" -> "i8*"
      [] typ.type = "Unknown" -> "i8*"
      [] OTHER -> "void"

\* fn llvm_type
llvm_type(typ) ==
    CASE typ.type = "Int" -> "i64"
      [] typ.type = "Float" -> "double"
      [] typ.type = "Bool" -> "i1"
      [] typ.type = "String" -> "i8*"
      [] typ.type = "Array" -> "i8*"
      [] typ.type = "Object" -> "i8*"
      [] typ.type = "Null" -> "i8*"
      [] typ.type = "Unknown" -> "i8*"
      [] OTHER -> "i8*"

\* Type::can_be_null: matches!(self, Type::Null | Type::Union(types) if types.contains(&Type::Null));
\* the guard reads `types`, which only the Union alternative binds: Null
\* matches by its own alternative, a Union when Null is one of its members.
can_be_null(typ) ==
    \/ typ.type = "Null"
    \/ typ.type = "Union" /\ \E i \in 1..Len(typ.types) : typ.types[i] = Type_Null

\* non_null_type that returns a Union also when one member is left
non_null_type_keeps_singleton_union(typ) ==
    CASE typ.type = "Union" ->
           LET non_null == SelectSeq(typ.types, LAMBDA t : t # Type_Null)
           IN IF Len(non_null) = 0 THEN <<>> ELSE <<Type_Union(non_null)>>
      [] typ.type = "Null" -> <<>>
      [] OTHER -> <<typ>>

\* Type::non_null_type
non_null_type(typ) ==
    CASE typ.type = "Union" ->
           LET non_null == SelectSeq(typ.types, LAMBDA t : t # Type_Null)
           IN CASE Len(non_null) = 0 -> <<>>
                [] Len(non_null) = 1 -> <<non_null[1]>>
                [] OTHER -> <<Type_Union(non_null)>>
      [] typ.type = "Null" -> <<>>
      [] OTHER -> <<typ>>

\* Option::unwrap_or
unwrap_or(opt, default) == IF opt = None THEN default ELSE opt[1]

\* Vec<String>::join
RECURSIVE join(_, _)
join(strs, sep) ==
    IF Len(strs) = 0 THEN ""
    ELSE IF Len(strs) = 1 THEN strs[1]
    ELSE strs[1] \o sep \o join(Tail(strs), sep)

RECURSIVE generate_expression(_, _)
RECURSIVE generate_statement(_, _)
RECURSIVE generate_node(_, _)

\* generate_literal that emits the integer literal as the first operand and
\* the boolean constants inverted
generate_literal_swapped(g, literal) ==
    CASE literal.lit = "Int" ->
           LET v == new_var(g)
           IN push_str(v.g, <<"  ", v.val, " = add i64 ", ToString(literal.n), ", 0", "\n">>)
      [] literal.lit = "Bool" ->
           LET v == new_var(g)
               value == IF literal.b THEN 0 ELSE 1
           IN push_str(v.g, <<"  ", v.val, " = add i1 0, ", ToString(value), "\n">>)
      [] OTHER -> g

\* fn generate_literal
generate_literal(g, literal) ==
    CASE literal.lit = "Int" ->
           LET v == new_var(g)
           IN push_str(v.g, <<"  ", v.val, " = add i64 0, ", ToString(literal.n), "\n">>)
      [] literal.lit = "Float" ->
           LET v == new_var(g)
           IN push_str(v.g, <<"  ", v.val, " = fadd double 0.0, ", literal.x, "\n">>)
      [] literal.lit = "String" ->
           LET v == new_var(g)
               gs == new_global_string(v.g, literal.s)
           IN push_str(gs.g, <<"  ", v.val, " = getelementptr [", ToString(Len(literal.s) + 1),
                               " x i8], [", ToString(Len(literal.s) + 1), " x i8]* @", gs.val,
                               ", i32 0, i32 0\n">>)
      [] literal.lit = "Bool" ->
           LET v == new_var(g)
               value == IF literal.b THEN 1 ELSE 0
           IN push_str(v.g, <<"  ", v.val, " = add i1 0, ", ToString(value), "\n">>)
      [] literal.lit = "Null" ->
           LET v == new_var(g)
           IN push_str(v.g, <<"  ", v.val, " = inttoptr i64 0 to i8*\n">>)
      [] literal.lit = "Array" -> g

\* fn generate_variable_access: not implemented, emits nothing
generate_variable_access(g, name) == g

\* fn generate_function_call: not implemented, emits nothing
generate_function_call(g, name, arguments) == g

\* The instruction name generate_binary_op selects for an operator; the
\* fallback arm emits an integer add.
binary_op_instr(op) ==
    CASE op = "Add" -> "add i64"
      [] op = "Sub" -> "sub i64"
      [] op = "Mul" -> "mul i64"
      [] op = "Div" -> "sdiv i64"
      [] op = "Mod" -> "srem i64"
      [] op = "Equal" -> "icmp eq i64"
      [] op = "Less" -> "icmp slt i64"
      [] op = "Greater" -> "icmp sgt i64"
      [] OTHER -> "add i64"

\* fn generate_binary_op
generate_binary_op(g, left, op, right) ==
    LET g1 == generate_expression(g, left)
        left_var == last_var(g1)
        g2 == generate_expression(left_var.g, right)
        right_var == last_var(g2)
        result_var == new_var(right_var.g)
    IN push_str(result_var.g, <<"  ", result_var.val, " = ", binary_op_instr(op), " ",
                                left_var.val, ", ", right_var.val, "\n">>)

\* generate_unary_op that allocates a value for the operand and one for the result
generate_unary_op_allocates_twice(g, op, expr) ==
    LET g1 == generate_expression(g, expr)
        operand_var == last_var(g1)
        result_var == new_var(new_var(operand_var.g).g)
    IN CASE op = "Minus" ->
              push_str(result_var.g, <<"  ", result_var.val, " = sub i64 0, ", operand_var.val, "\n">>)
         [] op = "Not" ->
              push_str(result_var.g, <<"  ", result_var.val, " = icmp eq i1 ", operand_var.val, ", 0\n">>)
         [] OTHER ->
              push_str(result_var.g, <<"  ", result_var.val, " = add i64 0, ", operand_var.val, "\n">>)

\* fn generate_unary_op
generate_unary_op(g, op, expr) ==
    LET g1 == generate_expression(g, expr)
        operand_var == last_var(g1)
        result_var == new_var(operand_var.g)
    IN CASE op = "Plus" ->
              push_str(result_var.g, <<"  ", result_var.val, " = add i64 0, ", operand_var.val, "\n">>)
         [] op = "Minus" ->
              push_str(result_var.g, <<"  ", result_var.val, " = sub i64 0, ", operand_var.val, "\n">>)
         [] op = "Not" ->
              push_str(result_var.g, <<"  ", result_var.val, " = icmp eq i1 ", operand_var.val, ", 0\n">>)
         [] OTHER ->
              push_str(result_var.g, <<"  ", result_var.val, " = add i64 0, ", operand_var.val, "\n">>)

\* fn generate_expression
generate_expression(g, expr) ==
    CASE expr.expr = "Literal" -> generate_literal(g, expr.literal)
      [] expr.expr = "Variable" -> generate_variable_access(g, expr.name)
      [] expr.expr = "BinaryOp" -> generate_binary_op(g, expr.left, expr.op, expr.right)
      [] expr.expr = "UnaryOp" -> generate_unary_op(g, expr.op, expr.operand)
      [] expr.expr = "FunctionCall" -> generate_function_call(g, expr.callee, expr.arguments)
      [] OTHER -> g

\* for stmt in statements { self.generate_statement(stmt)?; }
RECURSIVE generate_statements(_, _)
generate_statements(g, statements) ==
    IF statements = <<>> THEN g
    ELSE generate_statements(generate_statement(g, Head(statements)), Tail(statements))

\* generate_if_statement that emits no else block when there is no else branch
generate_if_statement_skips_empty_else(g, condition, then_branch, else_branch) ==
    LET then_block == new_block(g)
        else_block == new_block(then_block.g)
        merge_block == new_block(else_block.g)
        g1 == generate_expression(merge_block.g, condition)
        cond_var == last_var(g1)
        g2 == push_str(cond_var.g, <<"  br i1 ", cond_var.val, ", label %", then_block.val,
                                     ", label %",
                                     IF else_branch # None THEN else_block.val ELSE merge_block.val,
                                     "\n">>)
        g3 == push_str(g2, <<then_block.val, ":\n">>)
        g4 == generate_statement(g3, then_branch)
        g5 == push_str(g4, <<"  br label %", merge_block.val, "\n">>)
        g8 == IF else_branch # None
              THEN push_str(generate_statement(push_str(g5, <<else_block.val, ":\n">>), else_branch[1]),
                            <<"  br label %", merge_block.val, "\n">>)
              ELSE g5
    IN push_str(g8, <<merge_block.val, ":\n">>)

\* fn generate_if_statement
generate_if_statement(g, condition, then_branch, else_branch) ==
    LET then_block == new_block(g)
        else_block == new_block(then_block.g)
        merge_block == new_block(else_block.g)
        g1 == generate_expression(merge_block.g, condition)
        cond_var == last_var(g1)
        g2 == push_str(cond_var.g, <<"  br i1 ", cond_var.val, ", label %", then_block.val,
                                     ", label %", else_block.val, "\n">>)
        g3 == push_str(g2, <<then_block.val, ":\n">>)
        g4 == generate_statement(g3, then_branch)
        g5 == push_str(g4, <<"  br label %", merge_block.val, "\n">>)
        g6 == push_str(g5, <<else_block.val, ":\n">>)
        g7 == IF else_branch # None THEN generate_statement(g6, else_branch[1]) ELSE g6
        g8 == push_str(g7, <<"  br label %", merge_block.val, "\n">>)
    IN push_str(g8, <<merge_block.val, ":\n">>)

\* generate_while_loop whose back edge jumps to the body instead of the header
generate_while_loop_back_edge_to_body(g, condition, body) ==
    LET loop_header == new_block(g)
        loop_body == new_block(loop_header.g)
        loop_exit == new_block(loop_body.g)
        g1 == push_str(loop_exit.g, <<"  br label %", loop_header.val, "\n">>)
        g2 == push_str(g1, <<loop_header.val, ":\n">>)
        g3 == generate_expression(g2, condition)
        cond_var == last_var(g3)
        g4 == push_str(cond_var.g, <<"  br i1 ", cond_var.val, ", label %", loop_body.val,
                                     ", label %", loop_exit.val, "\n">>)
        g5 == push_str(g4, <<loop_body.val, ":\n">>)
        g6 == generate_statement(g5, body)
        g7 == push_str(g6, <<"  br label %", loop_body.val, "\n">>)
    IN push_str(g7, <<loop_exit.val, ":\n">>)

\* fn generate_while_loop
generate_while_loop(g, condition, body) ==
    LET loop_header == new_block(g)
        loop_body == new_block(loop_header.g)
        loop_exit == new_block(loop_body.g)
        g1 == push_str(loop_exit.g, <<"  br label %", loop_header.val, "\n">>)
        g2 == push_str(g1, <<loop_header.val, ":\n">>)
        g3 == generate_expression(g2, condition)
        cond_var == last_var(g3)
        g4 == push_str(cond_var.g, <<"  br i1 ", cond_var.val, ", label %", loop_body.val,
                                     ", label %", loop_exit.val, "\n">>)
        g5 == push_str(g4, <<loop_body.val, ":\n">>)
        g6 == generate_statement(g5, body)
        g7 == push_str(g6, <<"  br label %", loop_header.val, "\n">>)
    IN push_str(g7, <<loop_exit.val, ":\n">>)

\* generate_return that allocates a value of its own and returns that one
generate_return_of_new_value(g, expr) ==
    IF expr # None
    THEN LET g1 == generate_expression(g, expr[1])
             value_var == new_var(g1)
         IN push_str(value_var.g, <<"  ret i64 ", value_var.val, "\n">>)
    ELSE push_str(g, <<"  ret void\n">>)

\* fn generate_return
generate_return(g, expr) ==
    IF expr # None
    THEN LET g1 == generate_expression(g, expr[1])
             value_var == last_var(g1)
         IN push_str(value_var.g, <<"  ret i64 ", value_var.val, "\n">>)
    ELSE push_str(g, <<"  ret void\n">>)

\* fn generate_echo
RECURSIVE generate_echo(_, _)
generate_echo(g, expressions) ==
    IF expressions = <<>> THEN g
    ELSE LET g1 == generate_expression(g, Head(expressions))
             value_var == last_var(g1)
             g2 == push_str(value_var.g, <<"  call void @php_print(i8* ", value_var.val, ")\n">>)
         IN generate_echo(g2, Tail(expressions))

\* fn generate_statement
generate_statement(g, stmt) ==
    CASE stmt.stmt = "Expression" -> generate_expression(g, stmt.e)
      [] stmt.stmt = "Block" -> generate_statements(g, stmt.statements)
      [] stmt.stmt = "If" ->
           generate_if_statement(g, stmt.condition, stmt.then_branch, stmt.else_branch)
      [] stmt.stmt = "While" -> generate_while_loop(g, stmt.condition, stmt.body)
      [] stmt.stmt = "Return" -> generate_return(g, stmt.value)
      [] stmt.stmt = "Echo" -> generate_echo(g, stmt.expressions)
      [] OTHER -> g

\* func_decl.parameters.iter().map(|p| format!("{} %{}", llvm_type(p.typ or Unknown), p.name))
param_strings(parameters) ==
    [i \in 1..Len(parameters) |->
        llvm_type(unwrap_or(parameters[i].typ, Type_Unknown)) \o " %" \o parameters[i].name]

\* self.current_function = v
set_current_function(g, v) ==
    IF g.panicked THEN g ELSE [g EXCEPT !.current_function = v]

\* generate_function that restarts both counters for each function
generate_function_restarts_counters(g, func_decl) ==
    LET func_name == func_decl.name
        return_type == llvm_type(unwrap_or(func_decl.return_type, Type_Unknown))
        param_list == join(param_strings(func_decl.parameters), ", ")
        g0 == IF g.panicked THEN g ELSE [g EXCEPT !.var_counter = 0, !.block_counter = 0]
        g1 == push_str(g0, <<"define ", return_type, " @", func_name, "(", param_list, ") {\n">>)
        g2 == set_current_function(g1, Some(func_name))
        g3 == generate_statement(g2, func_decl.body)
        g4 == push_str(g3, <<"  ret ", return_type, " undef\n">>)
        g5 == push_str(g4, <<"}\n\n">>)
    IN set_current_function(g5, None)

\* generate_function that leaves the current-function context set at the end
generate_function_keeps_context(g, func_decl) ==
    LET func_name == func_decl.name
        return_type == llvm_type(unwrap_or(func_decl.return_type, Type_Unknown))
        param_list == join(param_strings(func_decl.parameters), ", ")
        g1 == push_str(g, <<"define ", return_type, " @", func_name, "(", param_list, ") {\n">>)
        g2 == set_current_function(g1, Some(func_name))
        g3 == generate_statement(g2, func_decl.body)
        g4 == push_str(g3, <<"  ret ", return_type, " undef\n">>)
    IN push_str(g4, <<"}\n\n">>)

\* fn generate_function
generate_function(g, func_decl) ==
    LET func_name == func_decl.name
        return_type == llvm_type(unwrap_or(func_decl.return_type, Type_Unknown))
        param_list == join(param_strings(func_decl.parameters), ", ")
        g1 == push_str(g, <<"define ", return_type, " @", func_name, "(", param_list, ") {\n">>)
        g2 == set_current_function(g1, Some(func_name))
        g3 == generate_statement(g2, func_decl.body)
        g4 == IF return_type # "void"
              THEN push_str(g3, <<"  ret ", return_type, " undef\n">>)
              ELSE g3
        g5 == push_str(g4, <<"}\n\n">>)
    IN set_current_function(g5, None)

\* fn generate_class: not implemented, emits nothing
generate_class(g, class_decl) == g

\* for stmt in statements { self.generate_node(stmt)?; }
RECURSIVE generate_nodes(_, _)
generate_nodes(g, nodes) ==
    IF nodes = <<>> THEN g
    ELSE generate_nodes(generate_node(g, Head(nodes)), Tail(nodes))

\* fn generate_node
generate_node(g, node) ==
    CASE node.node = "Program" -> generate_nodes(g, node.nodes)
      [] node.node = "Function" -> generate_function(g, node.func_decl)
      [] node.node = "Class" -> generate_class(g, node)
      [] node.node = "Expression" -> generate_expression(g, node.e)
      [] node.node = "Statement" -> generate_statement(g, node.s)
      [] OTHER -> g

\* declare_runtime_functions that declares php_print before php_cleanup
declare_runtime_functions_reordered(g) ==
    LET g1 == push_str(g, <<"declare void @php_init()\n">>)
        g2 == push_str(g1, <<"declare void @php_print(i8*)\n">>)
        g3 == push_str(g2, <<"declare void @php_cleanup()\n">>)
        g4 == push_str(g3, <<"declare i8* @php_malloc(i64)\n">>)
    IN push_str(g4, <<"declare void @php_free(i8*)\n\n">>)

\* fn declare_runtime_functions
declare_runtime_functions(g) ==
    LET g1 == push_str(g, <<"declare void @php_init()\n">>)
        g2 == push_str(g1, <<"declare void @php_cleanup()\n">>)
        g3 == push_str(g2, <<"declare void @php_print(i8*)\n">>)
        g4 == push_str(g3, <<"declare i8* @php_malloc(i64)\n">>)
    IN push_str(g4, <<"declare void @php_free(i8*)\n\n">>)

\* fn generate_module_header
generate_module_header(g) ==
    LET g1 == push_str(g, <<"; ModuleID = 'php2ir'\n">>)
        g2 == push_str(g1, <<"source_filename = \"php2ir\"\n">>)
        g3 == push_str(g2, <<"target datalayout = \"e-m:e-p270:32:32-p271:32:32-p272:64:64-i64:64-f80:128-n8:16:32:64-S128\"\n">>)
        g4 == push_str(g3, <<"target triple = \"x86_64-pc-linux-gnu\"\n\n">>)
    IN declare_runtime_functions(g4)

\* generate_runtime_functions that also emits a second definition
generate_runtime_functions_extra_define(g) ==
    LET g1 == push_str(g, <<"define i32 @main(i32 %argc, i8** %argv) {\n">>)
        g2 == push_str(g1, <<"  call void @php_init()\n">>)
        g3 == push_str(g2, <<"  call void @php_cleanup()\n">>)
        g4 == push_str(g3, <<"  ret i32 0\n">>)
        g5 == push_str(g4, <<"}\n\n">>)
        g6 == push_str(g5, <<"define void @php_main() {\n">>)
    IN push_str(g6, <<"}\n\n">>)

\* fn generate_runtime_functions
generate_runtime_functions(g) ==
    LET g1 == push_str(g, <<"define i32 @main(i32 %argc, i8** %argv) {\n">>)
        g2 == push_str(g1, <<"  call void @php_init()\n">>)
        g3 == push_str(g2, <<"  call void @php_cleanup()\n">>)
        g4 == push_str(g3, <<"  ret i32 0\n">>)
    IN push_str(g4, <<"}\n\n">>)

\* fn generate_module_footer
generate_module_footer(g) == g

\* generate without the two counter resets of lines 93-94
generate_reset_keeps_counters(g) ==
    generate_module_header([g EXCEPT !.ir_code = <<>>])

\* generate, lines 91-97: reset state, emit the module header
generate_reset(g) ==
    generate_module_header([g EXCEPT !.ir_code = <<>>, !.var_counter = 0, !.block_counter = 0])

\* generate, lines 104-108: runtime functions and footer
generate_finish(g) == generate_module_footer(generate_runtime_functions(g))

\* fn generate, as one call on generator g: the generator afterwards;
\* Ok(self.ir_code.clone()) is its ir_code unless it panicked.
generate(g, nodes) == generate_finish(generate_nodes(generate_reset(g), nodes))


(***************************************************************************)
(* Inputs: the AST nodes a caller hands to generate.                       *)
(***************************************************************************)
Int_(n) == Expression_Literal(Literal_Int(n))
Bool_(b) == Expression_Literal(Literal_Bool(b))
Str_(s) == Expression_Literal(Literal_String(s))
Var_(name) == Expression_Variable(name)

LiteralExprs ==
    {Int_(-1), Int_(42), Bool_(TRUE), Bool_(FALSE), Str_("hi"),
     Expression_Literal(Literal_Array)}

Less_0_42 == Expression_BinaryOp(Int_(0), "Less", Int_(42))

OtherExprs ==
    {Var_("a"),
     Expression_FunctionCall(Var_("f"), <<Int_(42)>>),
     Expression_Assignment(Var_("a"), Int_(42)),
     Expression_BinaryOp(Var_("a"), "Add", Var_("b")),
     Expression_BinaryOp(Expression_BinaryOp(Int_(0), "Sub", Int_(42)), "Mul",
                         Expression_UnaryOp("Minus", Expression_Literal(Literal_Float("1.5")))),
     Expression_BinaryOp(Str_("hi"), "Pow", Expression_Literal(Literal_Null)),
     Expression_UnaryOp("BitwiseNot", Var_("a"))}

Exprs == LiteralExprs \cup OtherExprs

IfReturn == Statement_If(Bool_(TRUE), Statement_Return(Some(Int_(42))), None)
IfElse == Statement_If(Var_("a"), Statement_Expression(Int_(0)), Some(Statement_Return(None)))
WhileSimple == Statement_While(Less_0_42, Statement_Expression(Int_(42)))
EchoHi == Statement_Echo(<<Str_("hi")>>)
\* return -42 * (-1 - 0);
ReturnArithmetic ==
    Statement_Return(Some(Expression_BinaryOp(
        Expression_UnaryOp("Minus", Int_(42)), "Mul",
        Expression_BinaryOp(Int_(-1), "Sub", Int_(0)))))
IfNested ==
    Statement_If(Bool_(FALSE), Statement_While(Bool_(TRUE), Statement_Break), Some(IfReturn))
WhileNested ==
    Statement_While(Var_("a"),
                    Statement_Block(<<Statement_While(Bool_(FALSE), Statement_Break), IfReturn>>))

Stmts ==
    {Statement_Return(None),
     Statement_Return(Some(Var_("a"))),
     EchoHi,
     ReturnArithmetic,
     Statement_Echo(<<Int_(42), Var_("a")>>),
     Statement_Break,
     Statement_Block(<<Statement_Expression(Int_(0)),
                       Statement_Return(Some(Expression_BinaryOp(Int_(42), "Add", Int_(0))))>>),
     IfReturn,
     IfElse,
     IfNested,
     WhileNested}

\* function add(int $a, int $b): int { return $a + $b; }  (benches/codegen_bench.rs)
FunctionAdd ==
    FunctionDecl("add", <<Parameter("a", Some(Type_Int)), Parameter("b", Some(Type_Int))>>,
                 Some(Type_Int),
                 Statement_Return(Some(Expression_BinaryOp(Var_("a"), "Add", Var_("b")))))

FunctionF ==
    FunctionDecl("f", <<Parameter("x", None)>>, None,
                 Statement_Block(<<Statement_Expression(Int_(42)), WhileSimple>>))

FunctionG == FunctionDecl("g", <<>>, Some(Type_Bool), IfReturn)

\* function h(): string { return 42; }
FunctionH == FunctionDecl("h", <<>>, Some(Type_String), Statement_Return(Some(Int_(42))))

Nodes ==
    {AstNode_Expression(e) : e \in Exprs}
    \cup {AstNode_Statement(s) : s \in Stmts}
    \cup {AstNode_Function(FunctionAdd), AstNode_Function(FunctionF), AstNode_Function(FunctionH),
          AstNode_Class("Calculator"), AstNode_Interface("Shape"),
          AstNode_Program(<<AstNode_Expression(Int_(42)), AstNode_Function(FunctionG)>>)}

(***************************************************************************)
(* The state machine: one generator instance and its caller.               *)
(***************************************************************************)
\* CompileResult<String>
NoResult == [tag |-> "None"]
Ok(text) == [tag |-> "Ok", text |-> text]


(***************************************************************************)
(* Two generator instances (SpecTwo).                                      *)
(***************************************************************************)
Instances == {1, 2}

\* An IrGenerator just constructed, with its caller; `alone` is the same run on
\* an instance of its own that no other caller ever sees; `interleaved` records
\* that the other instance stepped inside its generate call while this one ran.
NewInstance ==
    [gen |-> IrGenerator_new, pc |-> "idle", ast |-> <<>>, result |-> NoResult,
     alone |-> IrGenerator_new, interleaved |-> FALSE]

\* a value counter that is one static shared by the instances, kept in the first
self_of_shared_counter(insts, i) ==
    [insts[i].gen EXCEPT !.var_counter = insts[1].gen.var_counter]

\* &mut self: the generator a method called on instance i reads and writes
self_of(insts, i) == insts[i].gen

\* The nodes handed to the two instances.
TwoNodes ==
    {AstNode_Expression(Int_(42)),
     AstNode_Expression(Expression_BinaryOp(Var_("a"), "Add", Var_("b"))),
     AstNode_Statement(EchoHi),
     AstNode_Statement(IfReturn)}

(***************************************************************************)
(* The Compiler (src/src/compiler.rs).                                     *)
(***************************************************************************)
\* PathBuf: a file name of stem and optional extension; stem "" is a path
\* without a file name (the empty path)
Path(stem, ext) == [stem |-> stem, ext |-> ext]
\* Path::extension
extension(path) == path.ext
\* Path::with_extension: replaces the extension; a path without a file name
\* is returned unchanged
with_extension(path, ext) ==
    IF path.stem = "" THEN path ELSE [path EXCEPT !.ext = Some(ext)]
\* Path::display
display(path) == IF path.ext = None THEN path.stem ELSE path.stem \o "." \o path.ext[1]

\* struct CompilerOptions, the fields compile reads
CompilerOptions(output, emit_llvm, emit_llvm_only, optimization_level) ==
    [output |-> output, emit_llvm |-> emit_llvm, emit_llvm_only |-> emit_llvm_only,
     optimization_level |-> optimization_level]
\* impl Default for CompilerOptions
CompilerOptions_default == CompilerOptions(Path("output", None), FALSE, FALSE, "O2")

\* The configured output paths: output, out.txt, prog.ll and the empty path.
OutputPaths ==
    {Path("output", None), Path("out", Some("txt")), Path("prog", Some("ll")), Path("", None)}
AllOptions ==
    {CompilerOptions(o, e, eo, l) :
        o \in OutputPaths, e \in BOOLEAN, eo \in BOOLEAN, l \in {"O0", "O2"}}

\* enum CompileError, the variants compile returns
Err(error) == [tag |-> "Err", error |-> error]
CompileError_Io == [error |-> "Io"]
CompileError_Parse(message) == [error |-> "Parse", message |-> message]
CompileError_LlvmCompilation(message) == [error |-> "LlvmCompilation", message |-> message]
\* a linker failure reported with the native-code generator's error kind
CompileError_Linking_as_LlvmCompilation(message) ==
    [error |-> "LlvmCompilation", message |-> message]
CompileError_Linking(message) == [error |-> "Linking", message |-> message]
CompileError_Internal(message) == [error |-> "Internal", message |-> message]

\* DefaultParser::parse: the placeholder AST, whatever the source
DefaultParser_parse ==
    <<AstNode_Program(<<AstNode_Expression(Str_("Hello, World!"))>>)>>

\* What a process wrote to standard error: chunks of bytes; "<0xFF>" stands
\* for a byte that is not valid UTF-8.
Stderrs ==
    {<<>>, <<"error: expected instruction opcode\n">>, <<"ld.lld: error: ", "<0xFF>", "\n">>}
\* String::from_utf8_lossy: invalid bytes become U+FFFD
from_utf8_lossy(bytes) ==
    [i \in 1..Len(bytes) |-> IF bytes[i] = "<0xFF>" THEN "<U+FFFD>" ELSE bytes[i]]

\* Command::output: the process could not be started, or ran and exited
ProcessOutputs ==
    {[started |-> FALSE]}
    \cup {[started |-> TRUE, status |-> s, stderr |-> e] : s \in {0, 1}, e \in Stderrs}

\* Compiler::new, before compile is called
Compiler_new(opts) ==
    /\ options = opts
    /\ compile_pc = "parse"
    /\ ir = None
    /\ files = {}
    /\ effects = <<>>
    /\ compile_result = NoResult

(***************************************************************************)
(* The values the library functions outside the generator are called on:   *)
(* Type (types.rs), Lexer (parser.rs), Resource (runtime.rs).              *)
(***************************************************************************)
\* The Type values: every variant, the unions of up to MaxUnionLen members
\* drawn from Null, Int and String, and two unions with a Union member.
Types ==
    {Type_Int, Type_Float, Type_Bool, Type_String, Type_Array(Type_Int),
     Type_AssociativeArray(Type_String), Type_Object("Foo"), Type_Null,
     Type_Function(<<Type_Int>>, Type_Bool), Type_Generic("List", <<Type_Int>>), Type_Unknown}
    \cup {Type_Union(members) :
            members \in UNION {[1..n -> {Type_Null, Type_Int, Type_String}] : n \in 0..MaxUnionLen}}
    \cup {Type_Union(<<Type_Union(<<Type_Null, Type_Int>>), Type_Null>>),
          Type_Union(<<Type_Int, Type_Union(<<Type_Null>>), Type_Null>>)}

\* A Type value on which no method has been called yet: `llvm`, `non_null` and
\* `nullable` are None until llvm_type, non_null_type and can_be_null (on the
\* Some result of non_null_type) have returned.
Types_new(typ) == [typ |-> typ, llvm |-> None, non_null |-> None, nullable |-> None]

\* Lexer::new
Lexer_new(source) == [source |-> source, position |-> 0, line |-> 1, column |-> 1]

\* static mut NEXT_ID: u64 = 1, and no thread inside Resource::new.  Of a
\* thread: where it is in Resource::new, its local `id`, the value it loaded
\* for `NEXT_ID += 1`, and the ids of the resources it has been returned.
Resources_new(threads) ==
    [NEXT_ID |-> 1,
     threads |-> [t \in threads |->
                    [pc |-> "idle", id |-> 0, loaded |-> 0, created |-> <<>>]]]

Threads == {1, 2}

\* Nothing of the library is in use.
Library_new ==
    /\ types = Types_new(Type_Unknown)
    /\ lexer = Lexer_new(<<>>)
    /\ tokens = <<>>
    /\ resources = Resources_new(Threads)

Init ==
    /\ Library_new
    /\ gen = IrGenerator_new
    /\ overflow_checks \in BOOLEAN
    /\ pc = "idle"
    /\ ast = <<>>
    /\ result = NoResult
    /\ reused = FALSE
    /\ fresh = IrGenerator_new
    /\ instances = [i \in Instances |-> NewInstance]
    /\ Compiler_new(CompilerOptions_default)

\* generate is called: lines 88-97 (reset, module header), before the node loop.
Generate_Begin ==
    /\ pc = "idle"
    /\ gen' = generate_reset(gen)
    /\ pc' = "nodes"
    /\ ast' = <<>>
    /\ result' = NoResult
    /\ reused' = (result.tag = "Ok")
    /\ fresh' = generate_reset(IrGenerator_new)
    /\ UNCHANGED <<overflow_checks, library_vars, instances, compiler_vars>>

\* One iteration of `for node in ast { self.generate_node(node)?; }` (lines 100-102)
\* on the next node of the input; a panic inside it ends the call.
Generate_Node ==
    /\ pc = "nodes"
    /\ Len(ast) < MaxNodes
    /\ \E node \in Nodes :
         LET g == generate_node(gen, node)
         IN /\ gen' = g
            /\ fresh' = generate_node(fresh, node)
            /\ ast' = Append(ast, node)
            /\ pc' = IF g.panicked THEN "panicked" ELSE "nodes"
    /\ UNCHANGED <<overflow_checks, library_vars, result, reused, instances, compiler_vars>>

\* The input has no further node: lines 104-111, generate returns Ok(ir_code).
Generate_Return ==
    /\ pc = "nodes"
    /\ gen' = generate_finish(gen)
    /\ result' = Ok(gen'.ir_code)
    /\ fresh' = generate_finish(fresh)
    /\ pc' = "idle"
    /\ UNCHANGED <<overflow_checks, library_vars, ast, reused, instances, compiler_vars>>

Next == Generate_Begin \/ Generate_Node \/ Generate_Return

Spec == Init /\ [][Next]_vars

(***************************************************************************)
(* SpecTwo: two instances, each driven by its own caller; the callers'     *)
(* steps interleave in any order.                                          *)
(***************************************************************************)
\* The other instance is inside a generate call.
OtherRuns(i) == \E j \in Instances \ {i} : instances[j].pc = "nodes"

Two_Begin(i) ==
    /\ instances[i].pc = "idle"
    /\ instances' = [instances EXCEPT ![i] =
          [gen |-> generate_reset(self_of(instances, i)),
           pc |-> "nodes",
           ast |-> <<>>,
           result |-> NoResult,
           alone |-> generate_reset(IrGenerator_new),
           interleaved |-> FALSE]]
    /\ UNCHANGED <<overflow_checks, library_vars, generator_vars, compiler_vars>>

Two_Node(i) ==
    /\ instances[i].pc = "nodes"
    /\ Len(instances[i].ast) < MaxNodes
    /\ \E node \in TwoNodes :
         LET g == generate_node(self_of(instances, i), node)
         IN instances' = [instances EXCEPT ![i] =
               [gen |-> g,
                pc |-> IF g.panicked THEN "panicked" ELSE "nodes",
                ast |-> Append(@.ast, node),
                result |-> @.result,
                alone |-> generate_node(@.alone, node),
                interleaved |-> @.interleaved \/ OtherRuns(i)]]
    /\ UNCHANGED <<overflow_checks, library_vars, generator_vars, compiler_vars>>

Two_Return(i) ==
    /\ instances[i].pc = "nodes"
    /\ LET g == generate_finish(self_of(instances, i))
       IN instances' = [instances EXCEPT ![i] =
             [gen |-> g,
              pc |-> "idle",
              ast |-> @.ast,
              result |-> Ok(g.ir_code),
              alone |-> generate_finish(@.alone),
              interleaved |-> @.interleaved \/ OtherRuns(i)]]
    /\ UNCHANGED <<overflow_checks, library_vars, generator_vars, compiler_vars>>

NextTwo == \E i \in Instances : Two_Begin(i) \/ Two_Node(i) \/ Two_Return(i)

SpecTwo == Init /\ [][NextTwo]_vars

(***************************************************************************)
(* SpecCompile: one Compiler, one call of Compiler::compile, stage by      *)
(* stage; the file system and the external processes answer as they like.  *)
(***************************************************************************)
InitCompile ==
    /\ Library_new
    /\ gen = IrGenerator_new
    /\ overflow_checks \in BOOLEAN
    /\ pc = "idle"
    /\ ast = <<>>
    /\ result = NoResult
    /\ reused = FALSE
    /\ fresh = IrGenerator_new
    /\ instances = [i \in Instances |-> NewInstance]
    /\ \E opts \in AllOptions : Compiler_new(opts)

\* `?` on an Err: compile returns the error at the stage it is at
Fail(error) == compile_result' = Err(error) /\ UNCHANGED compile_pc
\* the stage went through: on to the next one
Proceed(stage) == compile_pc' = stage /\ UNCHANGED compile_result
\* Ok(()) at the end of compile
Finish == compile_pc' = "done" /\ compile_result' = Ok(<<>>)

\* std::fs::write(path, ir) and its outcome
fs_write(path, ok) ==
    /\ effects' = Append(effects, [op |-> "write", path |-> path, ok |-> ok])
    /\ files' = IF ok
                THEN {f \in files : f.path # path} \cup {[path |-> path, content |-> ir[1]]}
                ELSE files
\* The outcomes a write to the path can have: no file can be created at a path
\* without a file name.
WriteOutcomes(path) == IF path.stem = "" THEN {FALSE} ELSE BOOLEAN

\* &self.options.optimization_level[1..]
level_digits(level) == CASE level = "O0" -> "0" [] level = "O2" -> "2"

\* 1. let ast = self.parse()?  (parse_file: read_to_string, then the placeholder AST)
Compile_Parse ==
    /\ compile_pc = "parse" /\ compile_result = NoResult
    /\ \E readable \in BOOLEAN :
         IF readable THEN Proceed("type_check")
         ELSE Fail(CompileError_Parse("Failed to read file"))
    /\ UNCHANGED <<overflow_checks, library_vars, generator_vars, instances, options, ir, files, effects>>

\* 2. self.type_check(&ast)?  (every analyze_* returns Ok)
Compile_TypeCheck ==
    /\ compile_pc = "type_check" /\ compile_result = NoResult
    /\ Proceed("generate_ir")
    /\ UNCHANGED <<overflow_checks, library_vars, generator_vars, instances, options, ir, files, effects>>

\* 3. let ir = self.generate_ir()?  (parses the input again, then IrGenerator::generate)
Compile_GenerateIr ==
    /\ compile_pc = "generate_ir" /\ compile_result = NoResult
    /\ \E readable \in BOOLEAN :
         IF readable
         THEN LET g == generate(gen, DefaultParser_parse)
              IN /\ gen' = g
                 /\ ir' = Some(g.ir_code)
                 /\ Proceed(IF g.panicked THEN "panicked" ELSE "optimize_ir")
         ELSE /\ Fail(CompileError_Parse("Failed to read file"))
              /\ UNCHANGED <<gen, ir>>
    /\ UNCHANGED <<overflow_checks, library_vars, pc, ast, result, reused, fresh, instances, options,
                   files, effects>>

\* compile that goes on to generate_object_file whatever emit_llvm_only says
Compile_OptimizeIr_ignores_emit_llvm_only ==
    /\ compile_pc = "optimize_ir" /\ compile_result = NoResult
    /\ Proceed("generate_object_file")
    /\ UNCHANGED <<overflow_checks, library_vars, generator_vars, instances, options, ir, files, effects>>

\* 4. if optimization_level != "O0" { self.optimize_ir(&ir)?; }  (optimize_ir does nothing)
Compile_OptimizeIr ==
    /\ compile_pc = "optimize_ir" /\ compile_result = NoResult
    /\ Proceed(IF options.emit_llvm_only THEN "write_ir_file" ELSE "generate_object_file")
    /\ UNCHANGED <<overflow_checks, library_vars, generator_vars, instances, options, ir, files, effects>>

\* 5a. emit_llvm_only: self.write_ir_file(&ir)?
Compile_WriteIrFile ==
    /\ compile_pc = "write_ir_file" /\ compile_result = NoResult
    /\ LET output_path == IF extension(options.output) # None
                          THEN options.output
                          ELSE with_extension(options.output, "ll")
       IN \E ok \in WriteOutcomes(output_path) :
            /\ fs_write(output_path, ok)
            /\ IF ok THEN Finish ELSE Fail(CompileError_Io)
    /\ UNCHANGED <<overflow_checks, library_vars, generator_vars, instances, options, ir>>

\* 5b. generate_object_file, first half: the IR is written to the .ll file
Compile_GenerateObjectFile_Write ==
    /\ compile_pc = "generate_object_file" /\ compile_result = NoResult
    /\ LET ir_file == with_extension(options.output, "ll")
       IN \E ok \in WriteOutcomes(ir_file) :
            /\ fs_write(ir_file, ok)
            /\ IF ok THEN Proceed("llc") ELSE Fail(CompileError_Io)
    /\ UNCHANGED <<overflow_checks, library_vars, generator_vars, instances, options, ir>>

\* generate_object_file that goes on to the linker whatever llc's exit status
Compile_GenerateObjectFile_Llc_ignores_status ==
    /\ compile_pc = "llc" /\ compile_result = NoResult
    /\ \E out \in ProcessOutputs :
         /\ out.started
         /\ effects' = Append(effects, [op |-> "spawn", program |-> "llc", args |-> <<>>,
                                        status |-> out.status, stderr |-> out.stderr])
         /\ Proceed("link_binary")
    /\ UNCHANGED <<overflow_checks, library_vars, generator_vars, instances, options, ir, files>>

\* 5b. generate_object_file, second half: llc is run on the .ll file
Compile_GenerateObjectFile_Llc ==
    /\ compile_pc = "llc" /\ compile_result = NoResult
    /\ LET ir_file == with_extension(options.output, "ll")
           obj_file == with_extension(options.output, "o")
           args == <<"-filetype=obj", "-o", display(obj_file), display(ir_file)>>
                   \o (IF options.optimization_level # "O0"
                       THEN <<"-O" \o level_digits(options.optimization_level)>>
                       ELSE <<>>)
       IN \E out \in ProcessOutputs :
            IF ~out.started
            THEN /\ Fail(CompileError_Internal("Failed to run llc"))
                 /\ UNCHANGED effects
            ELSE /\ effects' = Append(effects, [op |-> "spawn", program |-> "llc", args |-> args,
                                               status |-> out.status, stderr |-> out.stderr])
                 /\ IF out.status # 0
                    THEN Fail(CompileError_LlvmCompilation(from_utf8_lossy(out.stderr)))
                    ELSE IF ~options.emit_llvm THEN Proceed("link_binary") ELSE Finish
    /\ UNCHANGED <<overflow_checks, library_vars, generator_vars, instances, options, ir, files>>

\* 5c. if !emit_llvm { self.link_binary()?; }
Compile_LinkBinary ==
    /\ compile_pc = "link_binary" /\ compile_result = NoResult
    /\ LET obj_file == with_extension(options.output, "o")
           args == <<"-o", display(options.output), display(obj_file)>>
       IN \E out \in ProcessOutputs :
            IF ~out.started
            THEN /\ Fail(CompileError_Internal("Failed to run lld"))
                 /\ UNCHANGED effects
            ELSE /\ effects' = Append(effects, [op |-> "spawn", program |-> "ld.lld", args |-> args,
                                               status |-> out.status, stderr |-> out.stderr])
                 /\ IF out.status # 0
                    THEN Fail(CompileError_Linking(from_utf8_lossy(out.stderr)))
                    ELSE Finish
    /\ UNCHANGED <<overflow_checks, library_vars, generator_vars, instances, options, ir, files>>

NextCompile ==
    \/ Compile_Parse
    \/ Compile_TypeCheck
    \/ Compile_GenerateIr
    \/ Compile_OptimizeIr
    \/ Compile_WriteIrFile
    \/ Compile_GenerateObjectFile_Write
    \/ Compile_GenerateObjectFile_Llc
    \/ Compile_LinkBinary

SpecCompile == InitCompile /\ [][NextCompile]_vars

(***************************************************************************)
(* SpecTypes: the Type methods called on a Type value, and generate calls  *)
(* on a function declaration whose declared types are that value or absent.*)
(***************************************************************************)
InitTypes ==
    /\ gen = IrGenerator_new
    /\ overflow_checks \in BOOLEAN
    /\ pc = "idle"
    /\ ast = <<>>
    /\ result = NoResult
    /\ reused = FALSE
    /\ fresh = IrGenerator_new
    /\ instances = [i \in Instances |-> NewInstance]
    /\ Compiler_new(CompilerOptions_default)
    /\ \E typ \in Types : types = Types_new(typ)
    /\ lexer = Lexer_new(<<>>)
    /\ tokens = <<>>
    /\ resources = Resources_new(Threads)

\* generator.llvm_type(&typ)
Types_LlvmType ==
    /\ types.llvm = None
    /\ types' = [types EXCEPT !.llvm = Some(llvm_type(types.typ))]
    /\ UNCHANGED <<overflow_checks, generator_vars, instances, compiler_vars, lexer, tokens, resources>>

\* typ.non_null_type()
Types_NonNullType ==
    /\ types.non_null = None
    /\ types' = [types EXCEPT !.non_null = Some(non_null_type(types.typ))]
    /\ UNCHANGED <<overflow_checks, generator_vars, instances, compiler_vars, lexer, tokens, resources>>

\* t.can_be_null() on the type t that non_null_type returned
Types_CanBeNull ==
    /\ types.non_null # None /\ types.non_null[1] # None
    /\ types.nullable = None
    /\ types' = [types EXCEPT !.nullable = Some(can_be_null(types.non_null[1][1]))]
    /\ UNCHANGED <<overflow_checks, generator_vars, instances, compiler_vars, lexer, tokens, resources>>

\* The node loop of a generate call on `function f($x) {}`, with the return
\* type and the parameter type each declared as the Type value or left out
Types_Node ==
    /\ pc = "nodes" /\ ast = <<>>
    /\ \E return_type \in {None, Some(types.typ)}, param_type \in {None, Some(types.typ)} :
         LET node == AstNode_Function(FunctionDecl("f", <<Parameter("x", param_type)>>,
                                                   return_type, Statement_Block(<<>>)))
             g == generate_node(gen, node)
         IN /\ gen' = g
            /\ fresh' = generate_node(fresh, node)
            /\ ast' = <<node>>
            /\ pc' = IF g.panicked THEN "panicked" ELSE "nodes"
    /\ UNCHANGED <<overflow_checks, result, reused, instances, compiler_vars, library_vars>>

NextTypes ==
    \/ Types_LlvmType
    \/ Types_NonNullType
    \/ Types_CanBeNull
    \/ Generate_Begin
    \/ Types_Node
    \/ Generate_Return

SpecTypes == InitTypes /\ [][NextTypes]_vars

(***************************************************************************)
(* SpecLex: a Lexer over a source text, and a caller that asks for tokens  *)
(* until Eof (src/src/parser.rs).  The source is the Vec<char>: a sequence *)
(* of one-character strings.                                               *)
(***************************************************************************)
\* enum Token: a variant without data, and Identifier(String)
Token(name) == [token |-> name]
Token_Identifier(text) == [token |-> "Identifier", text |-> text]

\* fn current_char: self.source.get(self.position).copied()
current_char(lx) ==
    IF lx.position < Len(lx.source) THEN Some(lx.source[lx.position + 1]) ELSE None
\* fn next_char: self.source.get(self.position + 1).copied()
next_char(lx) ==
    IF lx.position + 1 < Len(lx.source) THEN Some(lx.source[lx.position + 2]) ELSE None
\* fn peek
peek(lx) == next_char(lx)
\* fn advance
advance(lx) ==
    LET ch == current_char(lx)
    IN [lx EXCEPT !.line = IF ch = Some("\n") THEN @ + 1 ELSE @,
                  !.column = IF ch = None THEN @ ELSE IF ch = Some("\n") THEN 1 ELSE @ + 1,
                  !.position = @ + 1]
\* fn is_eof
is_eof(lx) == lx.position >= Len(lx.source)

\* char::is_whitespace and char::is_alphabetic on the characters of the source
\* texts; there is no digit among them, so is_alphanumeric is is_alphabetic
is_whitespace(ch) == ch \in {" ", "\n"}
is_alphabetic(ch) == ch = "a"

\* fn skip_whitespace
RECURSIVE skip_whitespace(_)
skip_whitespace(lx) ==
    IF current_char(lx) # None /\ is_whitespace(current_char(lx)[1])
    THEN skip_whitespace(advance(lx))
    ELSE lx

\* while let Some(ch) = self.current_char() { if ch == '\n' { break; } self.advance(); }
RECURSIVE skip_line(_)
skip_line(lx) ==
    IF current_char(lx) # None /\ current_char(lx) # Some("\n")
    THEN skip_line(advance(lx))
    ELSE lx

\* the loop of the multi-line comment: up to and including the next `*` that
\* is followed by `/`
RECURSIVE skip_block(_)
skip_block(lx) ==
    IF current_char(lx) = None THEN lx
    ELSE IF current_char(lx) = Some("*") /\ peek(lx) = Some("/")
    THEN advance(advance(lx))
    ELSE skip_block(advance(lx))

\* fn skip_comments: the lexer afterwards and the bool returned
skip_comments(lx) ==
    IF current_char(lx) = Some("/")
    THEN IF peek(lx) = Some("/") THEN [lx |-> skip_line(lx), skipped |-> TRUE]
         ELSE IF peek(lx) = Some("*") THEN [lx |-> skip_block(advance(lx)), skipped |-> TRUE]
         ELSE [lx |-> lx, skipped |-> FALSE]
    ELSE IF current_char(lx) = Some("#") THEN [lx |-> skip_line(lx), skipped |-> TRUE]
    ELSE [lx |-> lx, skipped |-> FALSE]

\* loop { self.skip_whitespace(); if !self.skip_comments() { break; } }
RECURSIVE skip_whitespace_and_comments(_)
skip_whitespace_and_comments(lx) ==
    LET c == skip_comments(skip_whitespace(lx))
    IN IF c.skipped THEN skip_whitespace_and_comments(c.lx) ELSE c.lx

\* fn read_identifier, with the characters read so far; none of the keywords
\* can be spelled with the letters of the source texts, so the match takes
\* its last arm, Token::Identifier(identifier)
RECURSIVE read_identifier(_, _)
read_identifier(lx, identifier) ==
    IF current_char(lx) # None
       /\ (is_alphabetic(current_char(lx)[1]) \/ current_char(lx)[1] = "_")
    THEN read_identifier(advance(lx), identifier \o current_char(lx)[1])
    ELSE [lx |-> lx, token |-> Token_Identifier(identifier)]

\* fn next_token: the lexer afterwards and the token returned.  Every operator
\* arm calls advance() and then tests peek(), the character AFTER the one the
\* cursor is on; `a`, `b`, `c` are the lexer after one, two, three advances.
next_token(lx0) ==
    LET lx == skip_whitespace_and_comments(lx0)
        a == advance(lx)
        b == advance(a)
        c == advance(b)
        ch == current_char(lx)[1]
        Tok(l, name) == [lx |-> l, token |-> Token(name)]
        eq(single, compound) ==
            IF peek(a) = Some("=") THEN Tok(b, compound) ELSE Tok(a, single)
    IN IF is_eof(lx) THEN Tok(lx, "Eof")
       ELSE CASE is_alphabetic(ch) \/ ch = "_" -> read_identifier(lx, "")
              [] ch = "+" -> eq("Plus", "PlusEqual")
              [] ch = "-" -> eq("Minus", "MinusEqual")
              [] ch = "*" -> eq("Star", "StarEqual")
              [] ch = "/" -> eq("Slash", "SlashEqual")
              [] ch = "=" ->
                   IF peek(a) = Some("=")
                   THEN IF peek(b) = Some("=") THEN Tok(c, "EqualEqualEqual") ELSE Tok(b, "EqualEqual")
                   ELSE IF peek(a) = Some(">") THEN Tok(b, "Arrow")
                   ELSE Tok(a, "Equal")
              [] ch = "<" ->
                   IF peek(a) = Some("=")
                   THEN IF peek(b) = Some(">") THEN Tok(c, "LessEqualGreater") ELSE Tok(b, "LessEqual")
                   ELSE IF peek(a) = Some("<")
                   THEN IF peek(b) = Some("=") THEN Tok(c, "LessLessEqual") ELSE Tok(b, "LessLess")
                   ELSE IF peek(a) = Some(">") THEN Tok(b, "LessGreater")
                   ELSE Tok(a, "Less")
              [] ch = ">" ->
                   IF peek(a) = Some("=") THEN Tok(b, "GreaterEqual")
                   ELSE IF peek(a) = Some(">")
                   THEN IF peek(b) = Some("=") THEN Tok(c, "GreaterGreaterEqual")
                        ELSE Tok(b, "GreaterGreater")
                   ELSE Tok(a, "Greater")
              [] ch = "!" ->
                   IF peek(a) = Some("=")
                   THEN IF peek(b) = Some("=") THEN Tok(c, "ExclamationEqualEqual")
                        ELSE Tok(b, "ExclamationEqual")
                   ELSE Tok(a, "Exclamation")
              [] ch = "&" ->
                   IF peek(a) = Some("&") THEN Tok(b, "AmpersandAmpersand")
                   ELSE IF peek(a) = Some("=") THEN Tok(b, "AmpersandEqual")
                   ELSE Tok(a, "Ampersand")
              [] ch = "|" ->
                   IF peek(a) = Some("|") THEN Tok(b, "PipePipe")
                   ELSE IF peek(a) = Some("=") THEN Tok(b, "PipeEqual")
                   ELSE Tok(a, "Pipe")
              [] ch = "^" -> eq("Caret", "CaretEqual")
              [] ch = "?" ->
                   IF peek(a) = Some("?")
                   THEN IF peek(b) = Some("=") THEN Tok(c, "QuestionQuestionEqual")
                        ELSE Tok(b, "QuestionQuestion")
                   ELSE Tok(a, "Question")
              [] ch = "." -> eq("Dot", "DotEqual")
              [] ch = ";" -> Tok(a, "Semicolon")
              [] OTHER -> [lx |-> a, token |-> Token_Identifier(ch)]

\* The characters of the source texts: the operator characters, a letter, a
\* blank and a semicolon.
Chars == {"+", "-", "*", "/", "=", "<", ">", "!", "&", "|", "?", ".", "^", "a", " ", ";"}

InitLex ==
    /\ gen = IrGenerator_new
    /\ overflow_checks \in BOOLEAN
    /\ pc = "idle"
    /\ ast = <<>>
    /\ result = NoResult
    /\ reused = FALSE
    /\ fresh = IrGenerator_new
    /\ instances = [i \in Instances |-> NewInstance]
    /\ Compiler_new(CompilerOptions_default)
    /\ types = Types_new(Type_Unknown)
    /\ \E source \in UNION {[1..n -> Chars] : n \in 0..MaxSourceLen} : lexer = Lexer_new(source)
    /\ tokens = <<>>
    /\ resources = Resources_new(Threads)

\* lexer.next_token(), until it has returned Eof
Lex_NextToken ==
    /\ IF tokens = <<>> THEN TRUE ELSE tokens[Len(tokens)].token # Token("Eof")
    /\ LET r == next_token(lexer)
       IN /\ lexer' = r.lx
          /\ tokens' = Append(tokens, [before |-> lexer.position, token |-> r.token,
                                       after |-> r.lx.position])
    /\ UNCHANGED <<overflow_checks, generator_vars, instances, compiler_vars, types, resources>>

NextLex == Lex_NextToken

SpecLex == InitLex /\ [][NextLex]_vars

(***************************************************************************)
(* SpecResource: threads that call Resource::new (src/src/runtime.rs).     *)
(* NEXT_ID is a `static mut` read and written in an unsafe block without   *)
(* synchronisation: the accesses of different threads interleave freely.   *)
(* `NEXT_ID += 1` is a load and a store; a build that reuses the value     *)
(* read for `id` behaves as the runs in which no other thread steps        *)
(* between Resource_Read and Resource_Load.                                *)
(***************************************************************************)
InitResource ==
    /\ gen = IrGenerator_new
    /\ overflow_checks \in BOOLEAN
    /\ pc = "idle"
    /\ ast = <<>>
    /\ result = NoResult
    /\ reused = FALSE
    /\ fresh = IrGenerator_new
    /\ instances = [i \in Instances |-> NewInstance]
    /\ Compiler_new(CompilerOptions_default)
    /\ types = Types_new(Type_Unknown)
    /\ lexer = Lexer_new(<<>>)
    /\ tokens = <<>>
    /\ resources = Resources_new(Threads)

\* Resource::new is called: let id = NEXT_ID;
Resource_Read(t) ==
    /\ resources.threads[t].pc = "idle"
    /\ Len(resources.threads[t].created) < MaxResources
    /\ resources' = [resources EXCEPT !.threads[t].pc = "read",
                                      !.threads[t].id = resources.NEXT_ID]
    /\ UNCHANGED <<overflow_checks, generator_vars, instances, compiler_vars, types, lexer, tokens>>

\* NEXT_ID += 1, the load
Resource_Load(t) ==
    /\ resources.threads[t].pc = "read"
    /\ resources' = [resources EXCEPT !.threads[t].pc = "loaded",
                                      !.threads[t].loaded = resources.NEXT_ID]
    /\ UNCHANGED <<overflow_checks, generator_vars, instances, compiler_vars, types, lexer, tokens>>

\* NEXT_ID += 1, the store; then Self { resource_type, data, id } is returned
Resource_Store(t) ==
    /\ resources.threads[t].pc = "loaded"
    /\ resources' = [resources EXCEPT !.NEXT_ID = resources.threads[t].loaded + 1,
                                      !.threads[t].pc = "idle",
                                      !.threads[t].created = Append(@, resources.threads[t].id)]
    /\ UNCHANGED <<overflow_checks, generator_vars, instances, compiler_vars, types, lexer, tokens>>

NextResource == \E t \in Threads : Resource_Read(t) \/ Resource_Load(t) \/ Resource_Store(t)

SpecResource == InitResource /\ [][NextResource]_vars

(***************************************************************************)
(* Reading the emitted text.                                               *)
(***************************************************************************)
\* `  <v> = <instruction>`: an instruction that defines the value <v>
IsDef(piece) ==
    /\ Len(piece) >= 3
    /\ piece[1] = "  "
    /\ piece[3] \in {" = add i64 0, ", " = fadd double 0.0, ", " = getelementptr [",
                     " = add i1 0, ", " = inttoptr i64 0 to i8*\n", " = ",
                     " = sub i64 0, ", " = icmp eq i1 "}
\* `<label>:`
IsLabel(piece) == Len(piece) = 2 /\ piece[2] = ":\n"
\* `  br label %<target>`
IsBr(piece) == piece[1] = "  br label %"
\* `  br i1 <cond>, label %<then>, label %<else>`
IsCondBr(piece) == piece[1] = "  br i1 "
\* `@.str.<n> = private unnamed_addr constant ...`
IsGlobal(piece) == Len(piece) >= 2 /\ piece[2] = " = private unnamed_addr constant ["

\* The value identifiers defined by instructions, in emission order.
RECURSIVE DefinedValues(_)
DefinedValues(text) ==
    IF text = <<>> THEN <<>>
    ELSE IF IsDef(Head(text)) THEN <<Head(text)[2]>> \o DefinedValues(Tail(text))
    ELSE DefinedValues(Tail(text))

\* The block labels, in emission order.
RECURSIVE Labels(_)
Labels(text) ==
    IF text = <<>> THEN <<>>
    ELSE IF IsLabel(Head(text)) THEN <<Head(text)[1]>> \o Labels(Tail(text))
    ELSE Labels(Tail(text))


\* Whether some fragment of the text is the identifier v.
UsesValue(text, v) ==
    \E i \in 1..Len(text) : \E k \in 1..Len(text[i]) : text[i][k] = v

\* The number n of the identifier "%n", -1 when v is no such identifier of this text.
ValueNumber(text, v) ==
    IF \E n \in 0..Len(text) : v = "%" \o ToString(n)
    THEN CHOOSE n \in 0..Len(text) : v = "%" \o ToString(n)
    ELSE -1

\* The pieces a step appended to the text.
Emitted(before, after) == SubSeq(after.ir_code, Len(before.ir_code) + 1, Len(after.ir_code))

\* A Generate_Node step that lowered its node to the end (no panic).
LoweredNode == pc = "nodes" /\ pc' = "nodes" /\ Len(ast') = Len(ast) + 1
\* The node such a step lowered.
LastNode == ast'[Len(ast')]

(***************************************************************************)
(* C1: the text generate returns depends only on the AST of that call,     *)
(* never on earlier generate calls on the same instance: whatever call     *)
(* came before, the returned text is the text a freshly constructed        *)
(* generator returns for the same AST.                                     *)
(***************************************************************************)
C1_GenerateDependsOnlyOnAst ==
    (pc = "idle" /\ result.tag = "Ok") =>
        /\ result.text = fresh.ir_code
        /\ gen.var_counter = fresh.var_counter
        /\ gen.block_counter = fresh.block_counter

\* A call on a reused instance returned, for an AST that allocates values and blocks.
C1_Witness ==
    /\ reused /\ pc = "idle" /\ result.tag = "Ok"
    /\ gen.var_counter > 0 /\ gen.block_counter > 0


(***************************************************************************)
(* C2: within one generate call the value identifiers defined by emitted   *)
(* instructions are, in emission order, %0, %1, %2, ... with no number     *)
(* skipped, for every AST, string literals included.                       *)
(***************************************************************************)
C2_ValuesNumberedConsecutively ==
    LET defs == DefinedValues(gen.ir_code)
    IN \A i \in 1..Len(defs) : defs[i] = "%" \o ToString(i - 1)

(***************************************************************************)
(* C3: within one generate call no value identifier and no block label is  *)
(* issued twice: every value an instruction defines is numbered strictly   *)
(* higher than every value defined before it, and no label appears twice,  *)
(* also across function declarations (the counters are not restarted).     *)
(***************************************************************************)
C3_IdentifiersNeverReused ==
    LET defs == DefinedValues(gen.ir_code)
        labels == Labels(gen.ir_code)
    IN /\ \A i \in 1..Len(defs) : ValueNumber(gen.ir_code, defs[i]) >= 0
       /\ \A i, j \in 1..Len(defs) :
            i < j => ValueNumber(gen.ir_code, defs[i]) < ValueNumber(gen.ir_code, defs[j])
       /\ \A i, j \in 1..Len(labels) : i # j => labels[i] # labels[j]

\* Two function declarations lowered one after the other, each allocating values and blocks.
C3_Witness ==
    /\ pc = "nodes"
    /\ ast = <<AstNode_Function(FunctionF), AstNode_Function(FunctionF)>>
    /\ gen.var_counter >= 2 /\ gen.block_counter >= 6

(***************************************************************************)
(* C4: when the last value is read while no value has been allocated in    *)
(* the run (`return $a;` first), generate reports an internal error; it    *)
(* does not emit an instruction that names some value identifier.          *)
(***************************************************************************)
\* The last value was read at var_counter = 0: the call panicked, or the wrapped
\* identifier was formatted into an instruction.
ReadLastValueBeforeAllocation ==
    pc = "panicked" \/ UsesValue(gen.ir_code, "%" \o U32_MAX_TEXT)

C4_LastValueBeforeAllocationIsInternalError ==
    ReadLastValueBeforeAllocation =>
        /\ result.tag = "Err"
        /\ ~UsesValue(gen.ir_code, "%" \o U32_MAX_TEXT)

(***************************************************************************)
(* C5: after generate_expression returns for an expression, last_var names *)
(* the value defined by the instruction emitted for that expression: the   *)
(* lowering emitted an instruction, and the last one defines last_var().   *)
(***************************************************************************)
C5_LastValueIsOwnResult ==
    [][(LoweredNode /\ LastNode.node = "Expression") =>
         LET emitted == Emitted(gen, gen')
         IN /\ emitted # <<>>
            /\ IsDef(emitted[Len(emitted)])
            /\ last_var(gen').val = emitted[Len(emitted)][2]]_vars


(***************************************************************************)
(* C6: for every if statement, with or without else and whatever its       *)
(* branches contain, the text emitted after the condition's instructions   *)
(* is exactly: conditional branch on the condition's last value to         *)
(* then/else, then-label, then-branch code, branch to merge, else-label,   *)
(* else-branch code (nothing when absent), branch to merge, merge-label;   *)
(* the three labels are the three blocks allocated before anything else.   *)
(***************************************************************************)
\* g: the generator when the if statement s is reached; g2: after its lowering.
IfShape(g, g2, s) ==
    LET then_label == "bb" \o ToString(g.block_counter)
        else_label == "bb" \o ToString(g.block_counter + 1)
        merge_label == "bb" \o ToString(g.block_counter + 2)
        cond == generate_expression([g EXCEPT !.block_counter = @ + 3], s.condition)
        cond_value == last_var(cond).val
        then_start == [cond EXCEPT !.ir_code = @ \o
                          << <<"  br i1 ", cond_value, ", label %", then_label,
                               ", label %", else_label, "\n">>,
                             <<then_label, ":\n">> >>]
        then_end == generate_statement(then_start, s.then_branch)
        else_start == [then_end EXCEPT !.ir_code = @ \o
                          << <<"  br label %", merge_label, "\n">>, <<else_label, ":\n">> >>]
        else_end == IF s.else_branch = None THEN else_start
                    ELSE generate_statement(else_start, s.else_branch[1])
    IN /\ Emitted(g, g2) =
            Emitted(g, cond)
            \o << <<"  br i1 ", cond_value, ", label %", then_label, ", label %", else_label, "\n">> >>
            \o << <<then_label, ":\n">> >>
            \o Emitted(then_start, then_end)
            \o << <<"  br label %", merge_label, "\n">> >>
            \o << <<else_label, ":\n">> >>
            \o Emitted(else_start, else_end)
            \o << <<"  br label %", merge_label, "\n">> >>
            \o << <<merge_label, ":\n">> >>
       /\ s.else_branch = None => Emitted(else_start, else_end) = <<>>
       /\ g2.block_counter = else_end.block_counter
       /\ g2.var_counter = else_end.var_counter

LabelPos(text, label) == CHOOSE i \in 1..Len(text) : text[i] = <<label, ":\n">>
\* Positions of the branches that name the label as a target.
BranchesTo(text, label) ==
    {i \in 1..Len(text) :
        \/ IsBr(text[i]) /\ text[i][2] = label
        \/ IsCondBr(text[i]) /\ (text[i][4] = label \/ text[i][6] = label)}
\* The labels that are the target of a back edge: the loop headers.
LoopHeaders(text) ==
    {text[p][1] : p \in {i \in 1..Len(text) :
        IsLabel(text[i]) /\ \E q \in BranchesTo(text, text[i][1]) : q > i}}

RECURSIVE WhilesInStatement(_)
RECURSIVE WhilesInStatements(_)
WhilesInStatement(s) ==
    CASE s.stmt = "While" -> 1 + WhilesInStatement(s.body)
      [] s.stmt = "If" ->
           WhilesInStatement(s.then_branch)
           + (IF s.else_branch = None THEN 0 ELSE WhilesInStatement(s.else_branch[1]))
      [] s.stmt = "Block" -> WhilesInStatements(s.statements)
      [] OTHER -> 0
WhilesInStatements(ss) ==
    IF ss = <<>> THEN 0 ELSE WhilesInStatement(Head(ss)) + WhilesInStatements(Tail(ss))

RECURSIVE WhilesInNodes(_)
WhilesInNodes(ns) ==
    IF ns = <<>> THEN 0
    ELSE (LET n == Head(ns)
          IN CASE n.node = "Statement" -> WhilesInStatement(n.s)
               [] n.node = "Function" -> WhilesInStatement(n.func_decl.body)
               [] n.node = "Program" -> WhilesInNodes(n.nodes)
               [] OTHER -> 0)
         + WhilesInNodes(Tail(ns))

WhileHeaderShape(text, header) ==
    LET p == LabelPos(text, header)
    IN /\ Cardinality(BranchesTo(text, header)) = 2
       /\ p - 1 \in BranchesTo(text, header)
       /\ IsBr(text[p - 1])
       /\ \E c \in (p + 1)..(Len(text) - 1) :
            /\ IsCondBr(text[c])
            /\ \A k \in (p + 1)..(c - 1) :
                 ~IsCondBr(text[k]) /\ ~IsBr(text[k]) /\ ~IsLabel(text[k])
            /\ text[c + 1] = <<text[c][4], ":\n">>
            /\ BranchesTo(text, text[c][6]) = {c}
            /\ \E q \in BranchesTo(text, header) :
                 /\ q > c
                 /\ IsBr(text[q])
                 /\ q < Len(text)
                 /\ text[q + 1] = <<text[c][6], ":\n">>

C7_WhileControlFlow ==
    pc # "panicked" =>
        /\ Cardinality(LoopHeaders(gen.ir_code)) = WhilesInNodes(ast)
        /\ \A header \in LoopHeaders(gen.ir_code) : WhileHeaderShape(gen.ir_code, header)

\* A loop whose body holds another loop and an if was lowered, after another loop.
C7_Witness ==
    /\ pc = "nodes"
    /\ Len(ast) = 2
    /\ ast[2] = AstNode_Statement(WhileNested)
    /\ Cardinality(LoopHeaders(gen.ir_code)) = 3

(***************************************************************************)
(* C8: lowering an integer literal n emits exactly one instruction         *)
(* `<v> = add i64 0, n` with <v> a freshly allocated value, and allocates  *)
(* exactly one value; true emits one i1 instruction with constant 1,       *)
(* false one with constant 0.                                              *)
(***************************************************************************)
\* The decimal text of the integer literals of the inputs.
DecimalText(n) ==
    CASE n = -1 -> "-1"
      [] n = 0 -> "0"
      [] n = 42 -> "42"

C8_LiteralLowering ==
    [][(/\ LoweredNode
        /\ LastNode.node = "Expression"
        /\ LastNode.e.expr = "Literal"
        /\ LastNode.e.literal.lit \in {"Int", "Bool"}) =>
         LET v == "%" \o ToString(gen.var_counter)
             lit == LastNode.e.literal
         IN /\ \A i \in 1..Len(gen.ir_code) : IsDef(gen.ir_code[i]) => gen.ir_code[i][2] # v
            /\ gen'.var_counter = gen.var_counter + 1
            /\ gen'.block_counter = gen.block_counter
            /\ Emitted(gen, gen') =
                 << IF lit.lit = "Int"
                    THEN <<"  ", v, " = add i64 0, ", DecimalText(lit.n), "\n">>
                    ELSE <<"  ", v, " = add i1 0, ", IF lit.b THEN "1" ELSE "0", "\n">> >>]_vars

\* A negative integer literal was lowered after a boolean literal.
C8_Witness ==
    /\ pc = "nodes"
    /\ ast = <<AstNode_Expression(Bool_(TRUE)), AstNode_Expression(Int_(-1))>>
    /\ gen.var_counter = 2

(***************************************************************************)
(* C9: generating `function add(int $a, int $b): int { return $a + $b; }`  *)
(* produces a definition with header `define i64 @add(i64 %a, i64 %b)`     *)
(* that contains exactly one `add i64` instruction whose two operands are  *)
(* the values obtained from parameters a and b (the parameters or values   *)
(* defined from them earlier in the function, one for each), followed by   *)
(* `ret i64` of that instruction's result.                                 *)
(***************************************************************************)
C9_AddFunction ==
    (ast = <<AstNode_Function(FunctionAdd)>> /\ pc \in {"idle", "panicked"}) =>
        /\ result.tag = "Ok"
        /\ LET text == result.text
               adds == {i \in 1..Len(text) :
                           IsDef(text[i]) /\ text[i][3] = " = " /\ text[i][4] = "add i64"}
           IN \E h \in 1..Len(text) :
                /\ text[h] = <<"define ", "i64", " @", "add", "(", "i64 %a, i64 %b", ") {\n">>
                /\ Cardinality(adds) = 1
                /\ \A i \in adds :
                     LET available == {"%a", "%b"}
                                      \cup {text[k][2] : k \in {j \in (h + 1)..(i - 1) : IsDef(text[j])}}
                     IN /\ i > h
                        /\ text[i][6] \in available
                        /\ text[i][8] \in available
                        /\ text[i][6] # text[i][8]
                        /\ text[i + 1] = <<"  ret i64 ", text[i][2], "\n">>

(***************************************************************************)
(* C10: generate on an empty AST returns Ok with a module that consists of *)
(* the header, the five runtime declarations and the generated main, with  *)
(* no other define, and allocates no value and no block.                   *)
(***************************************************************************)
C10_EmptyProgram ==
    (pc = "idle" /\ result.tag = "Ok" /\ ast = <<>>) =>
        /\ result.text =
             << <<"; ModuleID = 'php2ir'\n">>,
                <<"source_filename = \"php2ir\"\n">>,
                <<"target datalayout = \"e-m:e-p270:32:32-p271:32:32-p272:64:64-i64:64-f80:128-n8:16:32:64-S128\"\n">>,
                <<"target triple = \"x86_64-pc-linux-gnu\"\n\n">>,
                <<"declare void @php_init()\n">>,
                <<"declare void @php_cleanup()\n">>,
                <<"declare void @php_print(i8*)\n">>,
                <<"declare i8* @php_malloc(i64)\n">>,
                <<"declare void @php_free(i8*)\n\n">>,
                <<"define i32 @main(i32 %argc, i8** %argv) {\n">>,
                <<"  call void @php_init()\n">>,
                <<"  call void @php_cleanup()\n">>,
                <<"  ret i32 0\n">>,
                <<"}\n\n">> >>
        /\ gen.var_counter = 0
        /\ gen.block_counter = 0

\* generate returned for the empty AST, on an instance used before.
C10_Witness == pc = "idle" /\ result.tag = "Ok" /\ ast = <<>> /\ reused

(***************************************************************************)
(* C11: generating `echo "hi";` emits exactly one string global            *)
(* declaration and exactly one `call void @php_print(i8* X)`, where X is   *)
(* the value defined by the instruction that takes the address of that     *)
(* global.                                                                 *)
(***************************************************************************)
\* `  call void @php_print(i8* <v>)`
IsPrint(piece) == piece[1] = "  call void @php_print(i8* "

C11_EchoStringPrintsItsGlobal ==
    (ast = <<AstNode_Statement(EchoHi)>> /\ pc \in {"idle", "panicked"}) =>
        /\ result.tag = "Ok"
        /\ LET text == result.text
               globals == {i \in 1..Len(text) : IsGlobal(text[i])}
               prints == {i \in 1..Len(text) : IsPrint(text[i])}
           IN /\ Cardinality(globals) = 1
              /\ Cardinality(prints) = 1
              /\ \A gl \in globals : \A p \in prints :
                   \E d \in 1..(p - 1) :
                      /\ IsDef(text[d])
                      /\ text[d][3] = " = getelementptr ["
                      /\ text[d][8] = text[gl][1]
                      /\ text[p][2] = text[d][2]

(***************************************************************************)
(* C12: for every program built only from integer literals, arithmetic     *)
(* binary/unary operations on them and a return of such an expression,     *)
(* the k-th value-defining instruction defines %(k-1) (the counter goes up *)
(* by exactly 1 per instruction), and every `ret` names the value of the   *)
(* instruction just before it, the root of the returned expression, which  *)
(* is the highest-numbered value so far.                                   *)
(***************************************************************************)
RECURSIVE IsIntegerArithmetic(_)
IsIntegerArithmetic(expr) ==
    CASE expr.expr = "Literal" -> expr.literal.lit = "Int"
      [] expr.expr = "BinaryOp" ->
           /\ expr.op \in {"Add", "Sub", "Mul", "Div", "Mod"}
           /\ IsIntegerArithmetic(expr.left)
           /\ IsIntegerArithmetic(expr.right)
      [] expr.expr = "UnaryOp" ->
           expr.op \in {"Plus", "Minus"} /\ IsIntegerArithmetic(expr.operand)
      [] OTHER -> FALSE

RECURSIVE IsArithmeticStatement(_)
IsArithmeticStatement(s) ==
    CASE s.stmt = "Expression" -> IsIntegerArithmetic(s.e)
      [] s.stmt = "Return" -> s.value # None /\ IsIntegerArithmetic(s.value[1])
      [] s.stmt = "Block" ->
           \A i \in 1..Len(s.statements) : IsArithmeticStatement(s.statements[i])
      [] OTHER -> FALSE

IsArithmeticNode(n) ==
    CASE n.node = "Expression" -> IsIntegerArithmetic(n.e)
      [] n.node = "Statement" -> IsArithmeticStatement(n.s)
      [] OTHER -> FALSE

\* `  ret i64 <v>`
IsRetValue(piece) == piece[1] = "  ret i64 "

C12_ArithmeticCountsByOne ==
    (pc \in {"nodes", "panicked"} /\ \A i \in 1..Len(ast) : IsArithmeticNode(ast[i])) =>
        LET text == gen.ir_code
            defs == DefinedValues(text)
        IN /\ pc = "nodes"
           /\ \A k \in 1..Len(defs) : defs[k] = "%" \o ToString(k - 1)
           /\ gen.var_counter = Len(defs)
           /\ \A i \in 1..Len(text) :
                IsRetValue(text[i]) =>
                   /\ i > 1
                   /\ IsDef(text[i - 1])
                   /\ text[i][2] = text[i - 1][2]
                   /\ \A j \in 1..i : IsDef(text[j]) =>
                        ValueNumber(text, text[j][2]) <= ValueNumber(text, text[i][2])

\* A return of a nested arithmetic expression was lowered after another literal.
C12_Witness ==
    /\ pc = "nodes"
    /\ ast = <<AstNode_Expression(Int_(-1)), AstNode_Statement(ReturnArithmetic)>>
    /\ gen.var_counter = 7

(***************************************************************************)
(* C13: for every well-formed AST, also one with kinds that have no        *)
(* lowering rule (Interface, Break, Assignment, variable access, function  *)
(* call, array literal), generate runs to completion and returns Ok: no    *)
(* call aborts.                                                            *)
(***************************************************************************)
C13_GenerateAlwaysCompletes == pc # "panicked"

(***************************************************************************)
(* C14: the returned module begins with the fixed header and the five      *)
(* runtime declarations in the order php_init, php_cleanup, php_print,     *)
(* php_malloc, php_free; then comes what each AST node lowers to, in input *)
(* order; then exactly one `define i32 @main(i32 %argc, i8** %argv)` that  *)
(* calls php_init, then php_cleanup, then returns i32 0; nothing follows.  *)
(***************************************************************************)
HeaderAndDeclarations ==
    << <<"; ModuleID = 'php2ir'\n">>,
       <<"source_filename = \"php2ir\"\n">>,
       <<"target datalayout = \"e-m:e-p270:32:32-p271:32:32-p272:64:64-i64:64-f80:128-n8:16:32:64-S128\"\n">>,
       <<"target triple = \"x86_64-pc-linux-gnu\"\n\n">>,
       <<"declare void @php_init()\n">>,
       <<"declare void @php_cleanup()\n">>,
       <<"declare void @php_print(i8*)\n">>,
       <<"declare i8* @php_malloc(i64)\n">>,
       <<"declare void @php_free(i8*)\n\n">> >>

MainDefinition ==
    << <<"define i32 @main(i32 %argc, i8** %argv) {\n">>,
       <<"  call void @php_init()\n">>,
       <<"  call void @php_cleanup()\n">>,
       <<"  ret i32 0\n">>,
       <<"}\n\n">> >>

IsFunctionHeader(piece) == piece[1] = "define " /\ Len(piece) > 1
\* `}`
IsClosing(piece) == piece = <<"}\n\n">>
\* a branch or a return
IsTerminator(piece) ==
    IsBr(piece) \/ IsCondBr(piece)
    \/ piece[1] \in {"  ret i64 ", "  ret void\n", "  ret "}
\* Position i lies after a function header with no closing marker in between.
InFunction(text, i) ==
    \E d \in 1..(i - 1) :
        IsFunctionHeader(text[d]) /\ \A k \in (d + 1)..(i - 1) : ~IsClosing(text[k])

C19_BlocksEndInOneTerminator ==
    \A i \in 1..Len(gen.ir_code) :
        InFunction(gen.ir_code, i) =>
            LET text == gen.ir_code
            IN /\ IsTerminator(text[i]) =>
                    i < Len(text) /\ (IsLabel(text[i + 1]) \/ IsClosing(text[i + 1]))
               /\ (IsLabel(text[i]) \/ IsClosing(text[i])) => IsTerminator(text[i - 1])

(***************************************************************************)
(* C20: for every binary operation the left operand's instructions come    *)
(* first, then the right operand's, then exactly one result instruction    *)
(* whose first operand is the value the left operand's instructions        *)
(* produced and whose second operand is the value the right operand's      *)
(* produced; its result is a fresh value that becomes the last value; an   *)
(* operator without a mapping uses `add i64` in the same shape.            *)
(***************************************************************************)
\* The value the last instruction of a run of pieces defines; "" when the run
\* defines no value.
ProducedValue(pieces) ==
    IF pieces # <<>> /\ IsDef(pieces[Len(pieces)]) THEN pieces[Len(pieces)][2] ELSE ""

C20_BinaryOperandOrder ==
    [][(LoweredNode /\ LastNode.node = "Expression" /\ LastNode.e.expr = "BinaryOp") =>
         LET left == generate_expression(gen, LastNode.e.left)
             right == generate_expression(left, LastNode.e.right)
             emitted == Emitted(gen, gen')
             result_var == "%" \o ToString(right.var_counter)
             op == LastNode.e.op
             instr == CASE op = "Add" -> "add i64" [] op = "Sub" -> "sub i64"
                        [] op = "Mul" -> "mul i64" [] op = "Div" -> "sdiv i64"
                        [] op = "Mod" -> "srem i64" [] op = "Equal" -> "icmp eq i64"
                        [] op = "Less" -> "icmp slt i64" [] op = "Greater" -> "icmp sgt i64"
                        [] OTHER -> "add i64"
         IN /\ ProducedValue(Emitted(gen, left)) # ""
            /\ ProducedValue(Emitted(left, right)) # ""
            /\ emitted = Emitted(gen, left) \o Emitted(left, right)
                         \o << <<"  ", result_var, " = ", instr, " ",
                                 ProducedValue(Emitted(gen, left)), ", ",
                                 ProducedValue(Emitted(left, right)), "\n">> >>
            /\ ~UsesValue(gen.ir_code \o Emitted(gen, right), result_var)
            /\ last_var(gen').val = result_var]_vars

(***************************************************************************)
(* C15: two generation runs on two distinct IrGenerator instances, their   *)
(* lowering steps interleaved in any order, each return exactly the text   *)
(* the same run returns when executed alone: nothing is shared.            *)
(***************************************************************************)
C15_InstancesAreIndependent ==
    \A i \in Instances :
        (instances[i].pc = "idle" /\ instances[i].result.tag = "Ok") =>
            /\ instances[i].result.text = instances[i].alone.ir_code
            /\ instances[i].gen.var_counter = instances[i].alone.var_counter
            /\ instances[i].gen.block_counter = instances[i].alone.block_counter

\* Both runs returned, each having stepped while the other was inside generate,
\* on different ASTs that allocate values.
C15_Witness ==
    /\ \A i \in Instances :
         /\ instances[i].pc = "idle" /\ instances[i].result.tag = "Ok"
         /\ instances[i].interleaved
         /\ Len(instances[i].ast) = 2
         /\ instances[i].gen.var_counter > 0
    /\ instances[1].ast # instances[2].ast

(***************************************************************************)
(* C16: in Compiler::compile a non-zero exit status of llc makes compile   *)
(* return LlvmCompilation carrying llc's standard-error text, a non-zero   *)
(* exit status of the linker makes it return Linking carrying the linker's *)
(* standard-error text; each external process is started at most once per  *)
(* compile call.                                                           *)
(***************************************************************************)
\* The positions in the effects at which the program was started.
Spawned(log, program) ==
    {i \in 1..Len(log) : log[i].op = "spawn" /\ log[i].program = program}
\* Standard error as text: the bytes as written when they are valid UTF-8,
\* each invalid byte shown as the replacement character otherwise.
StderrText(bytes) ==
    IF \A i \in 1..Len(bytes) : bytes[i] # "<0xFF>" THEN bytes
    ELSE [i \in 1..Len(bytes) |-> IF bytes[i] = "<0xFF>" THEN "<U+FFFD>" ELSE bytes[i]]

C16_ToolchainFailureIsReported ==
    /\ Cardinality(Spawned(effects, "llc")) <= 1
    /\ Cardinality(Spawned(effects, "ld.lld")) <= 1
    /\ \A i \in Spawned(effects, "llc") :
         effects[i].status # 0 =>
            compile_result = [tag |-> "Err",
                              error |-> [error |-> "LlvmCompilation",
                                         message |-> StderrText(effects[i].stderr)]]
    /\ \A i \in Spawned(effects, "ld.lld") :
         effects[i].status # 0 =>
            compile_result = [tag |-> "Err",
                              error |-> [error |-> "Linking",
                                         message |-> StderrText(effects[i].stderr)]]

\* llc succeeded and the linker then failed, with a message on standard error.
C16_Witness ==
    /\ Len(effects) = 3
    /\ effects[2].op = "spawn" /\ effects[2].program = "llc" /\ effects[2].status = 0
    /\ effects[3].op = "spawn" /\ effects[3].program = "ld.lld" /\ effects[3].status = 1
    /\ effects[3].stderr = <<"ld.lld: error: ", "<0xFF>", "\n">>
    /\ compile_result.tag = "Err"

(***************************************************************************)
(* C17: compile is fail-stop across its stages in the order parse,         *)
(* type-check, IR generation, optimization, object generation, linking:    *)
(* after a failure nothing more is done; if IR generation fails no IR file *)
(* is written and neither llc nor the linker is started; if llc fails      *)
(* after the IR file was written the linker is never started and the IR    *)
(* file is still on disk, written once.                                    *)
(***************************************************************************)
StageRank(stage) ==
    CASE stage = "parse" -> 1
      [] stage = "type_check" -> 2
      [] stage = "generate_ir" -> 3
      [] stage = "optimize_ir" -> 4
      [] stage \in {"write_ir_file", "generate_object_file"} -> 5
      [] stage = "llc" -> 6
      [] stage = "link_binary" -> 7
      [] stage = "done" -> 8

\* An effect that failed: a write that did not succeed, a process that exited non-zero.
FailedEffect(e) == IF e.op = "write" THEN ~e.ok ELSE e.status # 0

C17_CompileIsFailStop ==
    [][/\ compile_result = NoResult
       /\ compile_pc' # compile_pc => StageRank(compile_pc') > StageRank(compile_pc)
       /\ compile_pc' = compile_pc => compile_result'.tag = "Err"
       /\ \A i \in 1..Len(effects') : FailedEffect(effects'[i]) =>
            i = Len(effects') /\ compile_result'.tag = "Err"
       /\ (compile_result'.tag = "Err" /\ StageRank(compile_pc') <= 3) =>
            files' = {} /\ effects' = <<>>
       /\ (compile_result'.tag = "Err" /\ compile_pc' = "llc") =>
            /\ Spawned(effects', "ld.lld") = {}
            /\ files' = {[path |-> [options.output EXCEPT !.ext = <<"ll">>],
                          content |-> ir[1]]}
            /\ files' = files
            /\ Cardinality({i \in 1..Len(effects') : effects'[i].op = "write"}) = 1]_vars

\* llc exited non-zero after the IR file had been written.
C17_Witness ==
    /\ compile_pc = "llc"
    /\ compile_result.tag = "Err"
    /\ compile_result.error.error = "LlvmCompilation"
    /\ files # {}

(***************************************************************************)
(* C18: whenever compile writes the IR text to disk, with emit_llvm_only   *)
(* set or not and for every configured output path, with or without an     *)
(* extension, the path written has the `.ll` suffix.                       *)
(***************************************************************************)
C18_IrPathHasLlSuffix ==
    \A f \in files : f.path.ext = <<"ll">>

(***************************************************************************)
(* C21: for every function declaration the emitted text is, in order: the  *)
(* `define` header, the lowered body, a trailing `ret <T> undef` with T the *)
(* lowered declared return type (whether or not the body returns), and the *)
(* closing marker; the current-function context is the function's name     *)
(* from the start of the body to its end, and none once the declaration is *)
(* finished.                                                               *)
(***************************************************************************)
\* The LLVM type a declared type (or none) lowers to.
LoweredType(opt) ==
    IF opt = <<>> THEN "i8*"
    ELSE CASE opt[1].type = "Int" -> "i64"
           [] opt[1].type = "Float" -> "double"
           [] opt[1].type = "Bool" -> "i1"
           [] OTHER -> "i8*"

\* g: the generator when the declaration f is reached; g2: after its lowering.
FunctionShape(g, g2, f) ==
    LET T == LoweredType(f.return_type)
        emitted == Emitted(g, g2)
        body_start == [g EXCEPT !.ir_code = Append(@, emitted[1]),
                                !.current_function = <<f.name>>]
        body_end == generate_statement(body_start, f.body)
    IN /\ Len(emitted) >= 3
       /\ emitted[1][1] = "define " /\ emitted[1][2] = T /\ emitted[1][3] = " @"
       /\ emitted[1][4] = f.name /\ emitted[1][5] = "("
       /\ emitted[1][Len(emitted[1])] = ") {\n"
       /\ SubSeq(emitted, 2, Len(emitted) - 2) = Emitted(body_start, body_end)
       /\ emitted[Len(emitted) - 1] = <<"  ret ", T, " undef\n">>
       /\ emitted[Len(emitted)] = <<"}\n\n">>
       /\ T # "void"
       /\ body_end.current_function = <<f.name>>
       /\ g2.current_function = <<>>
       /\ g2.var_counter = body_end.var_counter
       /\ g2.block_counter = body_end.block_counter

ReturnShape(g, pieces, g2, value) ==
    IF value = <<>>
    THEN /\ pieces = << <<"  ret void\n">> >>
         /\ g2.var_counter = g.var_counter
         /\ g2.block_counter = g.block_counter
    ELSE LET e == generate_expression(g, value[1])
         IN /\ pieces = Emitted(g, e) \o << <<"  ret i64 ", last_var(e).val, "\n">> >>
            /\ g2.var_counter = e.var_counter
            /\ g2.block_counter = e.block_counter

C22_ReturnStatement ==
    [][/\ (LoweredNode /\ LastNode.node = "Statement" /\ LastNode.s.stmt = "Return") =>
            ReturnShape(gen, Emitted(gen, gen'), gen', LastNode.s.value)
       /\ (LoweredNode /\ LastNode.node = "Function"
                       /\ LastNode.func_decl.body.stmt = "Return") =>
            LET emitted == Emitted(gen, gen')
            IN /\ Len(emitted) >= 3
               /\ ReturnShape([gen EXCEPT !.ir_code = Append(@, emitted[1])],
                              SubSeq(emitted, 2, Len(emitted) - 2), gen',
                              LastNode.func_decl.body.value)]_vars

\* A return in a function declared to return a string, then a return of a
\* nested expression, were lowered.
C22_Witness ==
    /\ pc = "nodes"
    /\ ast = <<AstNode_Function(FunctionH), AstNode_Statement(ReturnArithmetic)>>
    /\ gen.var_counter = 7

(***************************************************************************)
(* C23: an echo statement with k expressions emits exactly k               *)
(* `call void @php_print` instructions; the i-th call comes after the      *)
(* instructions of the i-th expression and before those of the (i+1)-th,   *)
(* and its argument is the value the i-th expression left: the one its     *)
(* last instruction defines.                                               *)
(***************************************************************************)
\* g: the generator when the expressions exprs of an echo are reached;
\* pieces: what the echo emitted for them.
RECURSIVE EchoShape(_, _, _)
EchoShape(g, pieces, exprs) ==
    IF exprs = <<>> THEN pieces = <<>>
    ELSE LET e == generate_expression(g, Head(exprs))
             own == Emitted(g, e)
             n == Len(own)
         IN /\ Len(pieces) > n
            /\ SubSeq(pieces, 1, n) = own
            /\ ProducedValue(own) # ""
            /\ pieces[n + 1] = <<"  call void @php_print(i8* ", ProducedValue(own), ")\n">>
            /\ EchoShape([e EXCEPT !.ir_code = Append(@, pieces[n + 1])],
                         SubSeq(pieces, n + 2, Len(pieces)), Tail(exprs))

C23_EchoPrintsEachExpression ==
    [][(LoweredNode /\ LastNode.node = "Statement" /\ LastNode.s.stmt = "Echo") =>
         LET emitted == Emitted(gen, gen')
         IN /\ Cardinality({i \in 1..Len(emitted) : IsPrint(emitted[i])})
                 = Len(LastNode.s.expressions)
            /\ EchoShape(gen, emitted, LastNode.s.expressions)]_vars

(***************************************************************************)
(* C24: llvm_type is total over Type: Int lowers to i64, Float to double,  *)
(* Bool to i1, and String, Array, AssociativeArray, Object, Null,          *)
(* Function, Union, Generic and Unknown all lower to i8*; a function       *)
(* declaration whose return type or parameter type is absent is lowered as *)
(* if the type were Unknown, to i8* as well, and generate never fails on   *)
(* it.                                                                     *)
(***************************************************************************)
C24_LlvmTypeIsTotal ==
    /\ types.typ.type \in {"Int", "Float", "Bool", "String", "Array", "AssociativeArray",
                            "Object", "Null", "Function", "Union", "Generic", "Unknown"}
    /\ types.llvm # <<>> =>
          types.llvm = << CASE types.typ.type = "Int" -> "i64"
                            [] types.typ.type = "Float" -> "double"
                            [] types.typ.type = "Bool" -> "i1"
                            [] types.typ.type \in {"String", "Array", "AssociativeArray", "Object",
                                                   "Null", "Function", "Union", "Generic",
                                                   "Unknown"} -> "i8*" >>
    /\ pc # "panicked"
    /\ ast # <<>> =>
          LET f == ast[1].func_decl
              text == gen.ir_code
          IN /\ pc = "idle" => result = [tag |-> "Ok", text |-> text]
             /\ \E h \in 1..Len(text) :
                   text[h] = <<"define ", LoweredType(f.return_type), " @", "f", "(",
                               LoweredType(f.parameters[1].typ) \o " %x", ") {\n">>
             /\ f.return_type = <<>> =>
                   \E h \in 1..Len(text) : text[h] = <<"  ret ", "i8*", " undef\n">>

\* llvm_type returned for a Function type, and a declaration with a declared
\* parameter type and no return type was generated.
C24_Witness ==
    /\ types.typ.type = "Function"
    /\ types.llvm # <<>>
    /\ ast # <<>>
    /\ ast[1].func_decl.return_type = <<>>
    /\ ast[1].func_decl.parameters[1].typ # <<>>
    /\ pc = "idle" /\ result.tag = "Ok"

(***************************************************************************)
(* C25: non_null_type on a Union returns the members with every Null       *)
(* removed, in their original order: no type when nothing remains, the     *)
(* single member itself when one remains, a Union of the remaining members *)
(* otherwise; on Null it returns no type, on every other type that type    *)
(* unchanged.  For a Union without a Union member the result never         *)
(* can_be_null.                                                            *)
(***************************************************************************)
\* The positions of the members of a Union that are not Null.
Kept(typ) == {i \in 1..Len(typ.types) : typ.types[i].type # "Null"}
\* The j-th smallest element of a set of positions.
Nth(positions, j) ==
    CHOOSE k \in positions : Cardinality({i \in positions : i < k}) = j - 1
\* No member of the Union is a Union.
IsFlattened(typ) == \A i \in 1..Len(typ.types) : typ.types[i].type # "Union"

C25_NonNullType ==
    types.non_null # <<>> =>
        LET typ == types.typ
            r == types.non_null[1]
        IN /\ typ.type = "Null" => r = <<>>
           /\ typ.type \notin {"Null", "Union"} => r = <<typ>>
           /\ typ.type = "Union" =>
                /\ Cardinality(Kept(typ)) = 0 => r = <<>>
                /\ Cardinality(Kept(typ)) = 1 => r = <<typ.types[Nth(Kept(typ), 1)]>>
                /\ Cardinality(Kept(typ)) > 1 =>
                     /\ r # <<>>
                     /\ r[1].type = "Union"
                     /\ Len(r[1].types) = Cardinality(Kept(typ))
                     /\ \A j \in 1..Len(r[1].types) :
                          r[1].types[j] = typ.types[Nth(Kept(typ), j)]
                /\ (IsFlattened(typ) /\ types.nullable # <<>>) => types.nullable = <<FALSE>>

\* non_null_type collapsed a Union with Nulls around one other member, and
\* can_be_null was called on the result.
C25_Witness ==
    /\ types.typ = [type |-> "Union", types |-> <<[type |-> "Null"], [type |-> "Int"], [type |-> "Null"]>>]
    /\ types.non_null = << <<[type |-> "Int"]>> >>
    /\ types.nullable # <<>>

(***************************************************************************)
(* C26: each occurrence of a string literal emits exactly one global       *)
(* declaration `@.str.<n> = ...`, with <n> different from that of every     *)
(* other string global of the run, and the instruction that materialises   *)
(* the literal's pointer references exactly the global name declared for   *)
(* that occurrence.                                                        *)
(***************************************************************************)
\* The text of a piece: its fragments one after the other.
RECURSIVE TextOf(_)
TextOf(piece) == IF piece = <<>> THEN "" ELSE Head(piece) \o TextOf(Tail(piece))

\* `  <v> = getelementptr ...`: the instruction that materialises a string literal
IsGetElementPtr(piece) == IsDef(piece) /\ piece[3] = " = getelementptr ["

C26_StringGlobals ==
    LET text == gen.ir_code
        globals == {i \in 1..Len(text) : IsGlobal(text[i])}
        pointers == {i \in 1..Len(text) : IsGetElementPtr(text[i])}
    IN /\ \A i, j \in globals : i # j => text[i][1] # text[j][1]
       /\ Cardinality(globals) = Cardinality(pointers)
       /\ \A p \in pointers :
            /\ p - 1 \in globals
            /\ \E value \in {text[p][2]}, size \in {text[p][4]} :
                 TextOf(text[p]) =
                    "  " \o value \o " = getelementptr [" \o size \o " x i8], ["
                    \o size \o " x i8]* " \o text[p - 1][1] \o ", i32 0, i32 0\n"

(***************************************************************************)
(* C27: which output stages compile runs is decided by the flags: with     *)
(* emit_llvm_only it writes the IR file and starts neither llc nor the     *)
(* linker (no object file); with emit_llvm and without emit_llvm_only it   *)
(* emits LLVM IR and never starts the linker; with neither it runs llc     *)
(* and, only after llc succeeded, the linker.                              *)
(***************************************************************************)
\* The positions in the effects at which a file was written successfully.
Written(log) == {i \in 1..Len(log) : log[i].op = "write" /\ log[i].ok}

C27_FlagsSelectStages ==
    LET finished == compile_pc = "done" /\ compile_result.tag = "Ok"
        llc == Spawned(effects, "llc")
        linker == Spawned(effects, "ld.lld")
    IN /\ options.emit_llvm_only =>
            /\ llc = {} /\ linker = {}
            /\ \A f \in files : f.path.ext # <<"o">>
            /\ finished => Cardinality(Written(effects)) = 1 /\ Len(effects) = 1
       /\ (options.emit_llvm /\ ~options.emit_llvm_only) =>
            /\ linker = {}
            /\ finished => \E f \in files : f.content = ir[1]
       /\ (~options.emit_llvm /\ ~options.emit_llvm_only) =>
            /\ \A k \in linker : \E i \in llc : i < k /\ effects[i].status = 0
            /\ finished => llc # {} /\ linker # {}

\* A compile call with emit_llvm set and emit_llvm_only unset finished: llc ran.
C27_Witness ==
    /\ compile_pc = "done" /\ compile_result.tag = "Ok"
    /\ options.emit_llvm /\ ~options.emit_llvm_only
    /\ Spawned(effects, "llc") # {}

(***************************************************************************)
(* C28: next_token returns the single compound token documented for a      *)
(* multi-character operator and consumes all of its characters (`+=`       *)
(* PlusEqual, `-=` MinusEqual, `*=` StarEqual, `/=` SlashEqual, `==`        *)
(* EqualEqual, `===` EqualEqualEqual, `<=` LessEqual, `>=` GreaterEqual,    *)
(* `!=` ExclamationEqual, `&&` AmpersandAmpersand, `||` PipePipe, `??`      *)
(* QuestionQuestion, `.=` DotEqual); an operator character followed by a   *)
(* character that continues no operator yields the single-character token  *)
(* and consumes exactly one character.                                     *)
(***************************************************************************)
\* The character at 0-based position p of the source, "" past its end.
CharAt(p) == IF p < Len(lexer.source) THEN lexer.source[p + 1] ELSE ""

\* The two-character operators of the claim and their tokens.
CompoundToken(c1, c2) ==
    CASE c1 = "+" /\ c2 = "=" -> "PlusEqual"
      [] c1 = "-" /\ c2 = "=" -> "MinusEqual"
      [] c1 = "*" /\ c2 = "=" -> "StarEqual"
      [] c1 = "/" /\ c2 = "=" -> "SlashEqual"
      [] c1 = "=" /\ c2 = "=" -> "EqualEqual"
      [] c1 = "<" /\ c2 = "=" -> "LessEqual"
      [] c1 = ">" /\ c2 = "=" -> "GreaterEqual"
      [] c1 = "!" /\ c2 = "=" -> "ExclamationEqual"
      [] c1 = "&" /\ c2 = "&" -> "AmpersandAmpersand"
      [] c1 = "|" /\ c2 = "|" -> "PipePipe"
      [] c1 = "?" /\ c2 = "?" -> "QuestionQuestion"
      [] c1 = "." /\ c2 = "=" -> "DotEqual"
      [] OTHER -> ""

\* The single-character tokens of the operator characters.
SingleToken(c1) ==
    CASE c1 = "+" -> "Plus" [] c1 = "-" -> "Minus" [] c1 = "*" -> "Star" [] c1 = "/" -> "Slash"
      [] c1 = "=" -> "Equal" [] c1 = "<" -> "Less" [] c1 = ">" -> "Greater"
      [] c1 = "!" -> "Exclamation" [] c1 = "&" -> "Ampersand" [] c1 = "|" -> "Pipe"
      [] c1 = "?" -> "Question" [] c1 = "." -> "Dot" [] c1 = "^" -> "Caret"
      [] OTHER -> ""

C28_CompoundOperators ==
    \A k \in 1..Len(tokens) :
        LET call == tokens[k]
            c1 == CharAt(call.before)
            c2 == CharAt(call.before + 1)
            c3 == CharAt(call.before + 2)
        IN /\ (c1 = "=" /\ c2 = "=" /\ c3 = "=") =>
                call.token = [token |-> "EqualEqualEqual"] /\ call.after = call.before + 3
           /\ (CompoundToken(c1, c2) # "" /\ c3 \in {"", "a", " ", ";"}) =>
                call.token = [token |-> CompoundToken(c1, c2)] /\ call.after = call.before + 2
           /\ (SingleToken(c1) # "" /\ c2 \in {"a", " ", ";"}) =>
                call.token = [token |-> SingleToken(c1)] /\ call.after = call.before + 1

(***************************************************************************)
(* C29: in the emitted text every value identifier %n used as an operand   *)
(* (of an arithmetic or compare instruction, a conditional branch, a ret   *)
(* or a php_print call) is defined by an instruction emitted earlier, and  *)
(* for an operand inside a function definition, earlier inside that same   *)
(* definition: no operand names an identifier that is never defined or     *)
(* that was defined in a previously emitted function.                      *)
(***************************************************************************)
\* The value identifiers a piece uses as operands: its fragments that are
\* identifiers, except the one an instruction defines.
Operands(text, piece) ==
    {piece[k] : k \in {j \in 2..Len(piece) :
        /\ ~(IsDef(piece) /\ j = 2)
        /\ ~IsLabel(piece)
        /\ (ValueNumber(text, piece[j]) >= 0 \/ piece[j] = "%" \o U32_MAX_TEXT)}}

C29_OperandsAreDefined ==
    LET text == gen.ir_code
    IN \A i \in 1..Len(text) : \A v \in Operands(text, text[i]) :
          \E d \in 1..(i - 1) :
             /\ IsDef(text[d])
             /\ text[d][2] = v
             /\ InFunction(text, i) =>
                  \E h \in 1..(d - 1) :
                     /\ IsFunctionHeader(text[h])
                     /\ \A k \in (h + 1)..(i - 1) : ~IsClosing(text[k])

(***************************************************************************)
(* C30: every call of Resource::new returns a resource whose id differs    *)
(* from the id of every other resource created in the process, the ids     *)
(* being issued as 1, 2, 3, ...; also when the calls come from several     *)
(* threads whose read and increment of NEXT_ID interleave.                 *)
(***************************************************************************)
\* The resources created so far: (thread, index of the call in the thread).
Created ==
    {c \in (DOMAIN resources.threads) \X (1..MaxResources) :
        c[2] <= Len(resources.threads[c[1]].created)}
\* get_id of a created resource
IdOf(c) == resources.threads[c[1]].created[c[2]]

C30_ResourceIdsAreUnique ==
    /\ \A c, d \in Created : c # d => IdOf(c) # IdOf(d)
    /\ {IdOf(c) : c \in Created} = 1..Cardinality(Created)

====
